---------------------------- MODULE Spec2Model ----------------------------
(***************************************************************************)
(* A model of parts of the noodles genomics library:                       *)
(*   - the rANS Nx16 encoder (noodles-cram/src/codecs/rans_nx16/encode.rs) *)
(*   - BAM sequence packing  (noodles-bam/src/writer/record/sequence.rs)   *)
(*   - the BAM record writer (noodles-bam/src/writer.rs)                   *)
(*   - the CSI indexer       (noodles-csi/src/index/indexer.rs)            *)
(*   - the BCF lazy record reader (noodles-bcf/src/async/reader/           *)
(*     lazy_record.rs) and INFO value reader (reader/record/info.rs)       *)
(*   - the CRAM record reader, value decoders and record iterator          *)
(*     (noodles-cram/src/reader/record.rs, reader/records.rs, reader.rs)   *)
(*   - the SAM header parser (noodles-sam/src/header/parser.rs)            *)
(*   - the rANS 4x8 order-0 decoder (noodles-cram/src/rans/decode/         *)
(*     order_0.rs)                                                         *)
(* Each subsystem has its own variables, initial condition, next-state     *)
(* relation and specification; the variables of the other subsystems stay  *)
(* at their idle values.                                                   *)
(***************************************************************************)
EXTENDS Integers, Sequences, FiniteSets, TLC

VARIABLES
    \* rANS Nx16 encode(flags, src)
    rn_pc, rn_flags, rn_src, rn_res,
    \* normalize_frequencies(frequencies)
    nf_pc, nf_freq, nf_out,
    \* put_sequence(dst, sequence)
    sq_pc, sq_seq, sq_dst,
    \* bam::Writer { inner, buf } and the log of write_record calls
    w_pc, w_inner, w_buf, w_log,
    \* csi::index::Indexer, its last call, the index it built, and counters
    ix_pc, indexer, ix_last, ix_index, ix_nulls, ix_calls,
    \* bcf read_lazy_record: the reader's remaining bytes and the last call
    lz_pc, lz_reader, lz_last,
    \* bcf read_info_field_value: declared type, typed value read, result
    inf_pc, inf_in, inf_out,
    \* cram record Reader over one slice: input, position and records read
    cr_pc, cr_in, cr_out,
    \* cram Records iterator: the stream, the iterator, what it yielded
    it_pc, it_in, it_out,
    \* cram decode_byte / decode_itf8 / decode_byte_array: call and result
    dc_pc, dc_in, dc_out,
    \* sam header parser: the lines and the result
    hp_pc, hp_in, hp_out,
    \* rans 4x8 order-0 decode: the stream and the result
    r0_pc, r0_in, r0_out,
    \* cram external data readers and core reader, and the decodes so far
    ex_pc, ex_readers, ex_log,
    \* async sam read_header: the stream and the result
    sh_pc, sh_in, sh_out,
    \* cram read_file_header_block: the block and the result
    fh_pc, fh_in, fh_out,
    \* cram tag ids dictionary Builder: the builder and the update calls
    td_pc, td_builder, td_log,
    \* rans Nx16 normalize and update: state and frequencies, and the result
    ns_pc, ns_in, ns_out

rn_vars == <<rn_pc, rn_flags, rn_src, rn_res>>
nf_vars == <<nf_pc, nf_freq, nf_out>>
sq_vars == <<sq_pc, sq_seq, sq_dst>>
w_vars  == <<w_pc, w_inner, w_buf, w_log>>
ix_vars == <<ix_pc, indexer, ix_last, ix_index, ix_nulls, ix_calls>>
lz_vars == <<lz_pc, lz_reader, lz_last>>
inf_vars == <<inf_pc, inf_in, inf_out>>
cr_vars == <<cr_pc, cr_in, cr_out>>
it_vars == <<it_pc, it_in, it_out>>
dc_vars == <<dc_pc, dc_in, dc_out>>
hp_vars == <<hp_pc, hp_in, hp_out>>
r0_vars == <<r0_pc, r0_in, r0_out>>
ex_vars == <<ex_pc, ex_readers, ex_log>>
sh_vars == <<sh_pc, sh_in, sh_out>>
fh_vars == <<fh_pc, fh_in, fh_out>>
td_vars == <<td_pc, td_builder, td_log>>
ns_vars == <<ns_pc, ns_in, ns_out>>
vars == <<rn_vars, nf_vars, sq_vars, w_vars, ix_vars,
          lz_vars, inf_vars, cr_vars, it_vars, dc_vars, hp_vars, r0_vars,
          ex_vars, sh_vars, fh_vars, td_vars, ns_vars>>

\* The variables each subsystem leaves alone.
but_rn == <<nf_vars, sq_vars, w_vars, ix_vars, lz_vars, inf_vars, cr_vars, it_vars, dc_vars, hp_vars, r0_vars, ex_vars, sh_vars, fh_vars, td_vars, ns_vars>>
but_nf == <<rn_vars, sq_vars, w_vars, ix_vars, lz_vars, inf_vars, cr_vars, it_vars, dc_vars, hp_vars, r0_vars, ex_vars, sh_vars, fh_vars, td_vars, ns_vars>>
but_sq == <<rn_vars, nf_vars, w_vars, ix_vars, lz_vars, inf_vars, cr_vars, it_vars, dc_vars, hp_vars, r0_vars, ex_vars, sh_vars, fh_vars, td_vars, ns_vars>>
but_w == <<rn_vars, nf_vars, sq_vars, ix_vars, lz_vars, inf_vars, cr_vars, it_vars, dc_vars, hp_vars, r0_vars, ex_vars, sh_vars, fh_vars, td_vars, ns_vars>>
but_ix == <<rn_vars, nf_vars, sq_vars, w_vars, lz_vars, inf_vars, cr_vars, it_vars, dc_vars, hp_vars, r0_vars, ex_vars, sh_vars, fh_vars, td_vars, ns_vars>>
but_lz == <<rn_vars, nf_vars, sq_vars, w_vars, ix_vars, inf_vars, cr_vars, it_vars, dc_vars, hp_vars, r0_vars, ex_vars, sh_vars, fh_vars, td_vars, ns_vars>>
but_inf == <<rn_vars, nf_vars, sq_vars, w_vars, ix_vars, lz_vars, cr_vars, it_vars, dc_vars, hp_vars, r0_vars, ex_vars, sh_vars, fh_vars, td_vars, ns_vars>>
but_cr == <<rn_vars, nf_vars, sq_vars, w_vars, ix_vars, lz_vars, inf_vars, it_vars, dc_vars, hp_vars, r0_vars, ex_vars, sh_vars, fh_vars, td_vars, ns_vars>>
but_it == <<rn_vars, nf_vars, sq_vars, w_vars, ix_vars, lz_vars, inf_vars, cr_vars, dc_vars, hp_vars, r0_vars, ex_vars, sh_vars, fh_vars, td_vars, ns_vars>>
but_dc == <<rn_vars, nf_vars, sq_vars, w_vars, ix_vars, lz_vars, inf_vars, cr_vars, it_vars, hp_vars, r0_vars, ex_vars, sh_vars, fh_vars, td_vars, ns_vars>>
but_hp == <<rn_vars, nf_vars, sq_vars, w_vars, ix_vars, lz_vars, inf_vars, cr_vars, it_vars, dc_vars, r0_vars, ex_vars, sh_vars, fh_vars, td_vars, ns_vars>>
but_r0 == <<rn_vars, nf_vars, sq_vars, w_vars, ix_vars, lz_vars, inf_vars, cr_vars, it_vars, dc_vars, hp_vars, ex_vars, sh_vars, fh_vars, td_vars, ns_vars>>
but_ex == <<rn_vars, nf_vars, sq_vars, w_vars, ix_vars, lz_vars, inf_vars, cr_vars, it_vars, dc_vars, hp_vars, r0_vars, sh_vars, fh_vars, td_vars, ns_vars>>
but_sh == <<rn_vars, nf_vars, sq_vars, w_vars, ix_vars, lz_vars, inf_vars, cr_vars, it_vars, dc_vars, hp_vars, r0_vars, ex_vars, fh_vars, td_vars, ns_vars>>
but_fh == <<rn_vars, nf_vars, sq_vars, w_vars, ix_vars, lz_vars, inf_vars, cr_vars, it_vars, dc_vars, hp_vars, r0_vars, ex_vars, sh_vars, td_vars, ns_vars>>
but_td == <<rn_vars, nf_vars, sq_vars, w_vars, ix_vars, lz_vars, inf_vars, cr_vars, it_vars, dc_vars, hp_vars, r0_vars, ex_vars, sh_vars, fh_vars, ns_vars>>
but_ns == <<rn_vars, nf_vars, sq_vars, w_vars, ix_vars, lz_vars, inf_vars, cr_vars, it_vars, dc_vars, hp_vars, r0_vars, ex_vars, sh_vars, fh_vars, td_vars>>

(***************************************************************************)
(* Generic helpers                                                         *)
(***************************************************************************)
Min(a, b) == IF a <= b THEN a ELSE b
Max(a, b) == IF a >= b THEN a ELSE b

RECURSIVE Pow2(_)
Pow2(k) == IF k = 0 THEN 1 ELSE 2 * Pow2(k - 1)

RECURSIVE SumSeq(_)
SumSeq(s) == IF s = <<>> THEN 0 ELSE Head(s) + SumSeq(Tail(s))

\* The elements of a finite set of integers as an ascending sequence.
RECURSIVE SortedSeq(_)
SortedSeq(S) ==
    IF S = {} THEN <<>>
    ELSE LET m == CHOOSE x \in S : \A y \in S : x <= y
         IN <<m>> \o SortedSeq(S \ {m})

Range(s) == {s[i] : i \in 1..Len(s)}

\* All sequences over S of length at most n.
SeqsUpTo(S, n) == UNION {[1..k -> S] : k \in 0..n}

\* The concatenation of a sequence of sequences.
RECURSIVE Flatten(_)
Flatten(ss) == IF ss = <<>> THEN <<>> ELSE Head(ss) \o Flatten(Tail(ss))

\* Index (0-based) of x in the sequence s; Len(s) when absent.
RECURSIVE IndexOf(_, _)
IndexOf(s, x) ==
    IF s = <<>> THEN 0
    ELSE IF Head(s) = x THEN 0 ELSE 1 + IndexOf(Tail(s), x)


(***************************************************************************)
(* rANS Nx16 encoder: noodles-cram/src/codecs/rans_nx16/encode.rs          *)
(***************************************************************************)
FlagNames == {"ORDER", "N32", "STRIPE", "NO_SIZE", "CAT", "RLE", "PACK"}

\* u8::from(flags): the flag byte (CAT = 0x20, RLE = 0x40, PACK = 0x80,
\* STRIPE = 0x08 and ORDER = 0x01 as in the tests' expected bytes).
FlagByte(flags) ==
    (IF "ORDER" \in flags THEN 1 ELSE 0) + (IF "N32" \in flags THEN 4 ELSE 0)
    + (IF "STRIPE" \in flags THEN 8 ELSE 0) + (IF "NO_SIZE" \in flags THEN 16 ELSE 0)
    + (IF "CAT" \in flags THEN 32 ELSE 0) + (IF "RLE" \in flags THEN 64 ELSE 0)
    + (IF "PACK" \in flags THEN 128 ELSE 0)

\* crate::writer::num::write_uint7: 7-bit groups, continuation bit in the MSB.
RECURSIVE write_uint7(_)
write_uint7(n) ==
    IF n < 128 THEN <<n>>
    ELSE <<128 + (n % 128)>> \o write_uint7(n \div 128)

\* build_frequencies: the count of every byte value.
build_frequencies(src) ==
    [b \in 0..255 |-> Cardinality({i \in 1..Len(src) : src[i] = b})]

\* The packed buffer of encode_pack for one tier: `per` symbols a byte, `bits`
\* bits a symbol; byte k ORs value << (shift * bits) for the symbols of chunk k
\* (the values are below 2^bits, so the OR of the shifted values is their sum).
PackBuf(src, syms, per, bits) ==
    LET len == (Len(src) \div per) + 1
    IN [k \in 1..len |->
          LET lo == (k - 1) * per + 1
              hi == Min(k * per, Len(src))
          IN SumSeq([j \in 1..(hi - lo + 1) |->
                       IndexOf(syms, src[lo + j - 1]) * Pow2((j - 1) * bits)]) % 256]

\* encode_pack(src) -> (header, buf).  n is a u8 counter: with all 256 byte
\* values present `n += 1` overflows, which panics in a debug build and wraps
\* to 0 in a release build.
encode_pack(src, profile) ==
    LET frequencies == build_frequencies(src)
        present(s) == frequencies[s] > 0
        syms == SelectSeq([i \in 1..256 |-> i - 1], present)
        count == Len(syms)
        n == count % 256
        hdr(buf) == <<n>> \o syms \o write_uint7(Len(buf))
        ok(buf) == [kind |-> "ok", header |-> hdr(buf), buf |-> buf]
    IN IF count > 255 /\ profile = "debug"
         THEN [kind |-> "panic", header |-> <<>>, buf |-> <<>>]
       ELSE IF n <= 1 THEN ok(<<>>)
       ELSE IF n <= 2 THEN ok(PackBuf(src, syms, 8, 1))
       ELSE IF n <= 4 THEN ok(PackBuf(src, syms, 4, 2))
       ELSE IF n <= 16 THEN ok(PackBuf(src, syms, 2, 4))
       ELSE [kind |-> "InvalidInput", header |-> <<>>, buf |-> <<>>]

\* scores[sym] of encode_rle: +1 for every window whose two bytes are sym, -1 for
\* every window that ends in sym after a different byte.
rle_score(src, sym) ==
    Cardinality({i \in 1..(Len(src) - 1) : src[i + 1] = sym /\ src[i] = sym})
    - Cardinality({i \in 1..(Len(src) - 1) : src[i + 1] = sym /\ src[i] # sym})

\* The symbols encode_rle selects for run-length coding (score > 0), ascending.
rle_symbols(src) == SortedSeq({s \in Range(src) : rle_score(src, s) > 0})

\* The inner while loop of encode_rle: the run that follows index i (0-based).
RECURSIVE rle_run(_, _, _)
rle_run(src, i, run) ==
    IF i + run + 1 < Len(src) /\ src[i + run + 2] = src[i + 1]
      THEN rle_run(src, i, run + 1)
      ELSE run

\* The outer while loop of encode_rle from index i (0-based): the literals and
\* the run lengths written to meta.
RECURSIVE rle_scan(_, _, _)
rle_scan(src, i, rs) ==
    IF i >= Len(src) THEN [buf |-> <<>>, runs |-> <<>>]
    ELSE LET b == src[i + 1]
             run == IF b \in rs THEN rle_run(src, i, 0) ELSE 0
             rest == rle_scan(src, i + run + 1, rs)
         IN [buf |-> <<b>> \o rest.buf,
             runs |-> (IF b \in rs THEN write_uint7(run) ELSE <<>>) \o rest.runs]

\* encode_rle(src) -> (header, buf); assert!(0 < n && n < 256) panics.
encode_rle(src) ==
    LET syms == rle_symbols(src)
        n == Len(syms)
        scan == rle_scan(src, 0, Range(syms))
        meta == <<n>> \o syms \o scan.runs
        header == write_uint7((Len(meta) * 2) + 1) \o write_uint7(Len(scan.buf)) \o meta
    IN IF ~(0 < n /\ n < 256)
         THEN [kind |-> "panic", header |-> <<>>, buf |-> <<>>]
         ELSE [kind |-> "ok", header |-> header, buf |-> scan.buf]

\* The stripes of rans_encode_stripe: t[j][x] = src[x * n + j] for x < ulens[j].
stripe_chunks(src, n) ==
    [j \in 1..n |->
        LET ulen == (Len(src) \div n) + (IF Len(src) % n > j - 1 THEN 1 ELSE 0)
        IN [x \in 1..ulen |-> src[(x - 1) * n + j]]]

\* The result of encode: `head` holds the bytes written before the payload (flag
\* byte, length, PACK header, RLE header, order-1 parameter byte) and `body` the
\* payload.  The entropy coders order_0::encode and order_1::encode are outside
\* the modelled sources: their output is kept as the coder's name, its state
\* count and the byte string handed to it.
EncFail(kind) ==
    [kind |-> kind, head |-> <<>>,
     body |-> [codec |-> "none", n |-> 0, data |-> <<>>, chunks |-> <<>>]]

RECURSIVE encode(_, _, _)
\* rans_encode_stripe(src, n): every stripe is encoded with Flags::empty().
rans_encode_stripe(src, n, profile) ==
    LET t == stripe_chunks(src, n)
        chunks == [j \in 1..n |-> encode({}, t[j], profile)]
        bad == {j \in 1..n : chunks[j].kind # "ok"}
    IN IF bad # {}
         THEN EncFail(chunks[CHOOSE j \in bad : \A k \in bad : j <= k].kind)
         ELSE [kind |-> "ok", head |-> <<>>,
               body |-> [codec |-> "stripe", n |-> n, data |-> <<>>, chunks |-> chunks]]

encode(flags, src, profile) ==
    LET head0 == <<FlagByte(flags)>>
                 \o (IF "NO_SIZE" \notin flags THEN write_uint7(Len(src)) ELSE <<>>)
        n == IF "N32" \in flags THEN 32 ELSE 4
        stripe == rans_encode_stripe(src, n, profile)
        pack == IF "PACK" \in flags THEN encode_pack(src, profile)
                ELSE [kind |-> "ok", header |-> <<>>, buf |-> src]
        rle == IF "RLE" \in flags THEN encode_rle(pack.buf)
               ELSE [kind |-> "ok", header |-> <<>>, buf |-> pack.buf]
        head1 == head0 \o pack.header \o rle.header
    IN IF "STRIPE" \in flags
         THEN IF stripe.kind # "ok" THEN stripe
              ELSE [kind |-> "ok", head |-> head0, body |-> stripe.body]
       ELSE IF pack.kind # "ok" THEN EncFail(pack.kind)
       ELSE IF rle.kind # "ok" THEN EncFail(rle.kind)
       ELSE IF "CAT" \in flags
         THEN [kind |-> "ok", head |-> head1,
               body |-> [codec |-> "cat", n |-> n, data |-> rle.buf, chunks |-> <<>>]]
       ELSE IF "ORDER" \in flags
         THEN [kind |-> "ok", head |-> head1 \o <<192>>,
               body |-> [codec |-> "order_1", n |-> n, data |-> rle.buf, chunks |-> <<>>]]
       ELSE [kind |-> "ok", head |-> head1,
             body |-> [codec |-> "order_0", n |-> n, data |-> rle.buf, chunks |-> <<>>]]


\* const SCALE in normalize_frequencies.
SCALE == 4096

\* normalize_frequencies(frequencies) on a table of any length.  `f >= max`
\* keeps the last index that holds the largest count.  (The u32 product
\* f * SCALE does not overflow for the counts the model draws.)
normalize_frequencies(frequencies) ==
    LET len == Len(frequencies)
        sum == SumSeq(frequencies)
        max == CHOOSE m \in Range(frequencies) \cup {0} :
                   \A i \in 1..len : frequencies[i] <= m
        max_index == CHOOSE i \in 1..len :
                        /\ frequencies[i] = max
                        /\ \A j \in (i + 1)..len : frequencies[j] # max
        g == [i \in 1..len |->
                IF frequencies[i] = 0 THEN 0
                ELSE Max(1, (frequencies[i] * SCALE) \div sum)]
        normalized_sum == SumSeq(g)
    IN IF sum = 0 THEN [i \in 1..len |-> 0]
       ELSE IF normalized_sum < SCALE
         THEN [g EXCEPT ![max_index] = @ + (SCALE - normalized_sum)]
         ELSE g

(***************************************************************************)
(* BAM sequence packing: noodles-bam/src/writer/record/sequence.rs         *)
(***************************************************************************)
\* The bases encode_base names, in code order (the table =ACMGRSVTWYHKDBN).
TableBases == <<"=", "A", "C", "M", "G", "R", "S", "V", "T", "W", "Y", "H", "K", "D", "B", "N">>

\* The base values of the model: the table's bases and X, a base the table does
\* not hold (sam::record::sequence::Base has it, as the test of encode_base shows).
Bases == Range(TableBases) \cup {"X"}

\* encode_base with the codes of G and T exchanged.
encode_base_swapped(base) ==
    CASE base = "=" -> 0
      [] base = "A" -> 1
      [] base = "C" -> 2
      [] base = "M" -> 3
      [] base = "G" -> 8
      [] base = "R" -> 5
      [] base = "S" -> 6
      [] base = "V" -> 7
      [] base = "T" -> 4
      [] base = "W" -> 9
      [] base = "Y" -> 10
      [] base = "H" -> 11
      [] base = "K" -> 12
      [] base = "D" -> 13
      [] base = "B" -> 14
      [] OTHER -> 15

encode_base(base) ==
    CASE base = "=" -> 0
      [] base = "A" -> 1
      [] base = "C" -> 2
      [] base = "M" -> 3
      [] base = "G" -> 4
      [] base = "R" -> 5
      [] base = "S" -> 6
      [] base = "V" -> 7
      [] base = "T" -> 8
      [] base = "W" -> 9
      [] base = "Y" -> 10
      [] base = "H" -> 11
      [] base = "K" -> 12
      [] base = "D" -> 13
      [] base = "B" -> 14
      [] OTHER -> 15

\* put_sequence with the nibbles exchanged (encode_base(r) << 4 | encode_base(l)).
put_sequence_low_first(sequence) ==
    [k \in 1..((Len(sequence) + 1) \div 2) |->
        LET l == sequence[2 * k - 1]
            r == IF 2 * k <= Len(sequence) THEN sequence[2 * k] ELSE "="
        IN ((encode_base(r) * 16) + encode_base(l)) % 256]

\* put_sequence: one byte per chunk of two bases, l in the high nibble, r (or
\* Base::Eq when the chunk has one base) in the low nibble.
put_sequence(sequence) ==
    [k \in 1..((Len(sequence) + 1) \div 2) |->
        LET l == sequence[2 * k - 1]
            r == IF 2 * k <= Len(sequence) THEN sequence[2 * k] ELSE "="
        IN ((encode_base(l) * 16) + encode_base(r)) % 256]

\* The BAM reader's side (not among the modelled sources): a 4-bit code is the
\* index of its base in the table =ACMGRSVTWYHKDBN.
decode_base(n) == TableBases[n + 1]

get_sequence(bytes, l_seq) ==
    [i \in 1..l_seq |->
        LET b == bytes[(i + 1) \div 2]
        IN decode_base(IF i % 2 = 1 THEN b \div 16 ELSE b % 16)]


(***************************************************************************)
(* The decoder of the rANS Nx16 format (not among the modelled sources),   *)
(* as the exact inverse the format prescribes: it reads the flag byte, the *)
(* length, the PACK and RLE headers, undoes the entropy coder, then RLE,   *)
(* then PACK; a striped stream is the interleaving of its decoded chunks.  *)
(***************************************************************************)
HasBit(byte, bit) == (byte \div bit) % 2 = 1

RECURSIVE read_uint7(_, _)
read_uint7(s, p) ==
    IF s[p] < 128 THEN [v |-> s[p], next |-> p + 1]
    ELSE LET r == read_uint7(s, p + 1)
         IN [v |-> (s[p] - 128) + (128 * r.v), next |-> r.next]

decode_pack(packed, syms, len) ==
    LET n_sym == Len(syms)
        per == IF n_sym <= 2 THEN 8 ELSE IF n_sym <= 4 THEN 4 ELSE 2
        bits == IF n_sym <= 2 THEN 1 ELSE IF n_sym <= 4 THEN 2 ELSE 4
    IN [i \in 1..len |->
          IF n_sym <= 1 THEN syms[1]
          ELSE LET byte == packed[((i - 1) \div per) + 1]
                   v == (byte \div Pow2(((i - 1) % per) * bits)) % Pow2(bits)
               IN syms[v + 1]]

RECURSIVE rle_expand(_, _, _, _, _)
rle_expand(lits, i, meta, p, rsyms) ==
    IF i > Len(lits) THEN <<>>
    ELSE IF lits[i] \in rsyms
      THEN LET r == read_uint7(meta, p)
           IN [j \in 1..(r.v + 1) |-> lits[i]] \o rle_expand(lits, i + 1, meta, r.next, rsyms)
      ELSE <<lits[i]>> \o rle_expand(lits, i + 1, meta, p, rsyms)

decode_rle(lits, meta) ==
    LET n == IF meta[1] = 0 THEN 256 ELSE meta[1]
    IN rle_expand(lits, 1, meta, n + 2, {meta[1 + k] : k \in 1..n})

\* Decoding of an unstriped stream; given_len is the length the caller supplies
\* when the stream carries none (NO_SIZE).
decode_plain(res, given_len) ==
    LET head == res.head
        flags == head[1]
        size == IF HasBit(flags, 16) THEN [v |-> given_len, next |-> 2]
                ELSE read_uint7(head, 2)
        has_pack == HasBit(flags, 128)
        n_sym == IF has_pack THEN head[size.next] ELSE 0
        syms == [k \in 1..n_sym |-> head[size.next + k]]
        packed_len == IF has_pack THEN read_uint7(head, size.next + n_sym + 1)
                      ELSE [v |-> size.v, next |-> size.next]
        has_rle == HasBit(flags, 64)
        meta_field == IF has_rle THEN read_uint7(head, packed_len.next)
                      ELSE [v |-> 0, next |-> packed_len.next]
        lit_len == IF has_rle THEN read_uint7(head, meta_field.next)
                   ELSE [v |-> packed_len.v, next |-> meta_field.next]
        meta == [k \in 1..(meta_field.v \div 2) |-> head[lit_len.next + k - 1]]
        lits == res.body.data
        unrle == IF has_rle THEN decode_rle(lits, meta) ELSE lits
    IN IF has_pack THEN decode_pack(unrle, syms, size.v) ELSE unrle

decode(res, given_len) ==
    LET flags == res.head[1]
        len == IF HasBit(flags, 16) THEN given_len ELSE read_uint7(res.head, 2).v
        n == res.body.n
        chunks == [j \in 1..n |->
                     LET ulen == (len \div n) + (IF len % n > j - 1 THEN 1 ELSE 0)
                     IN decode_plain(res.body.chunks[j], ulen)]
    IN IF HasBit(flags, 8)
         THEN [i \in 1..len |-> chunks[((i - 1) % n) + 1][((i - 1) \div n) + 1]]
         ELSE decode_plain(res, given_len)

(***************************************************************************)
(* BAM record writer: noodles-bam/src/writer.rs                            *)
(***************************************************************************)
RECURSIVE LittleEndian(_, _)
LittleEndian(v, width) ==
    IF width = 0 THEN <<>> ELSE <<v % 256>> \o LittleEndian(v \div 256, width - 1)

\* record::codec::encode(dst, header, record) (not among the modelled sources):
\* the 32-byte fixed prefix of an unmapped record, the NUL-terminated read name,
\* the packed sequence, then the quality scores (0xFF each when absent).  A
\* quality-score count that differs from the sequence length is InvalidInput,
\* found after the sequence has been put.
codec_encode(dst, record) ==
    LET name == IF record.read_name = <<>> THEN <<42>> ELSE record.read_name
        seq == record.sequence
        qual == record.quality_scores
        minus1 == <<255, 255, 255, 255>>
        prefix == minus1 \o minus1 \o <<Len(name) + 1, 255>> \o LittleEndian(4680, 2)
                  \o LittleEndian(0, 2) \o LittleEndian(4, 2) \o LittleEndian(Len(seq), 4)
                  \o minus1 \o minus1 \o LittleEndian(0, 4)
        upto_seq == dst \o prefix \o name \o <<0>> \o put_sequence(seq)
    IN IF Len(seq) = Len(qual) THEN [kind |-> "ok", buf |-> upto_seq \o qual]
       ELSE IF qual = <<>>
         THEN [kind |-> "ok", buf |-> upto_seq \o [i \in 1..Len(seq) |-> 255]]
       ELSE [kind |-> "InvalidInput", buf |-> upto_seq]

\* write_record that goes on after a failed encoding (the error is dropped).
write_record_ignoring_error(inner, buf, record, io) ==
    LET enc == codec_encode(<<>>, record)
        block_size == LittleEndian(Len(enc.buf), 4)
    IN IF io = "fail_u32" THEN [inner |-> inner, buf |-> enc.buf, res |-> "io"]
       ELSE IF io = "fail_all"
         THEN [inner |-> inner \o block_size, buf |-> enc.buf, res |-> "io"]
       ELSE [inner |-> inner \o block_size \o enc.buf, buf |-> enc.buf, res |-> "ok"]

\* write_record without self.buf.clear().
write_record_without_clear(inner, buf, record, io) ==
    LET enc == codec_encode(buf, record)
        block_size == LittleEndian(Len(enc.buf), 4)
    IN IF enc.kind # "ok" THEN [inner |-> inner, buf |-> enc.buf, res |-> enc.kind]
       ELSE IF io = "fail_u32" THEN [inner |-> inner, buf |-> enc.buf, res |-> "io"]
       ELSE IF io = "fail_all"
         THEN [inner |-> inner \o block_size, buf |-> enc.buf, res |-> "io"]
       ELSE [inner |-> inner \o block_size \o enc.buf, buf |-> enc.buf, res |-> "ok"]

\* Writer::write_record.  io is what the underlying writer does with this call:
\* "ok", "fail_u32" (write_u32 fails) or "fail_all" (write_all fails).  The
\* conversion of buf.len() to u32 cannot fail for the records of the model.
write_record(inner, buf, record, io) ==
    LET cleared == <<>>
        enc == codec_encode(cleared, record)
        block_size == LittleEndian(Len(enc.buf), 4)
    IN IF enc.kind # "ok" THEN [inner |-> inner, buf |-> enc.buf, res |-> enc.kind]
       ELSE IF io = "fail_u32" THEN [inner |-> inner, buf |-> enc.buf, res |-> "io"]
       ELSE IF io = "fail_all"
         THEN [inner |-> inner \o block_size, buf |-> enc.buf, res |-> "io"]
       ELSE [inner |-> inner \o block_size \o enc.buf, buf |-> enc.buf, res |-> "ok"]

(***************************************************************************)
(* CSI indexer: noodles-csi/src/index/indexer.rs                           *)
(***************************************************************************)
\* reference_sequence::Builder (not among the modelled sources) is kept as the
\* records added to it, in order; build() turns it into the reference sequence
\* holding them.
builder_default == <<>>

builder_add_record(builder, min_shift, depth, start, end, is_mapped, chunk) ==
    Append(builder, [start |-> start, end |-> end, is_mapped |-> is_mapped, chunk |-> chunk])

builder_build(builder) == [records |-> builder]

\* Indexer::new
indexer_new(min_shift, depth) ==
    [min_shift |-> min_shift, depth |-> depth,
     reference_sequence_builder |-> builder_default,
     reference_sequences |-> <<>>,
     unplaced_unmapped_record_count |-> 0]

current_reference_sequence_id(self) == Len(self.reference_sequences)

\* add_reference_sequences_builders_until that builds from a copy of the
\* in-progress builder instead of taking it (the builder is never reset).
RECURSIVE add_reference_sequences_builders_until_copying(_, _)
add_reference_sequences_builders_until_copying(self, reference_sequence_id) ==
    IF Len(self.reference_sequences) < reference_sequence_id
      THEN add_reference_sequences_builders_until_copying(
             [self EXCEPT
                !.reference_sequences =
                    Append(@, builder_build(self.reference_sequence_builder))],
             reference_sequence_id)
      ELSE self

RECURSIVE add_reference_sequences_builders_until(_, _)
add_reference_sequences_builders_until(self, reference_sequence_id) ==
    IF Len(self.reference_sequences) < reference_sequence_id
      THEN add_reference_sequences_builders_until(
             [self EXCEPT
                !.reference_sequences =
                    Append(@, builder_build(self.reference_sequence_builder)),
                !.reference_sequence_builder = builder_default],
             reference_sequence_id)
      ELSE self

\* add_record without the Ordering::Less arm: a lower id is treated as Equal.
add_record_unordered(self, ctx, chunk) ==
    IF ~ctx.some
      THEN [self |-> [self EXCEPT !.unplaced_unmapped_record_count = @ + 1],
            res |-> "ok"]
    ELSE LET s1 == IF ctx.id > current_reference_sequence_id(self)
                     THEN add_reference_sequences_builders_until(self, ctx.id)
                     ELSE self
         IN [self |-> [s1 EXCEPT !.reference_sequence_builder =
                          builder_add_record(@, s1.min_shift, s1.depth,
                                             ctx.start, ctx.end, ctx.is_mapped, chunk)],
             res |-> "ok"]

\* Indexer::add_record(alignment_context, chunk) -> (self, result); an absent
\* alignment context is [some |-> FALSE].
add_record(self, ctx, chunk) ==
    IF ~ctx.some
      THEN [self |-> [self EXCEPT !.unplaced_unmapped_record_count = @ + 1],
            res |-> "ok"]
    ELSE IF ctx.id < current_reference_sequence_id(self)
      THEN [self |-> self, res |-> "InvalidInput"]
    ELSE LET s1 == IF ctx.id > current_reference_sequence_id(self)
                     THEN add_reference_sequences_builders_until(self, ctx.id)
                     ELSE self
         IN [self |-> [s1 EXCEPT !.reference_sequence_builder =
                          builder_add_record(@, s1.min_shift, s1.depth,
                                             ctx.start, ctx.end, ctx.is_mapped, chunk)],
             res |-> "ok"]

\* build that sets the unplaced/unmapped count only on the early return.
build_dropping_count(self, reference_sequence_count) ==
    IF reference_sequence_count = 0
      THEN [reference_sequences |-> <<>>,
            unplaced_unmapped_record_count |-> self.unplaced_unmapped_record_count]
      ELSE LET s1 == add_reference_sequences_builders_until(self, reference_sequence_count - 1)
           IN [reference_sequences |-> s1.reference_sequences,
               unplaced_unmapped_record_count |-> 0]

\* Indexer::build(reference_sequence_count) -> Index
build(self, reference_sequence_count) ==
    IF reference_sequence_count = 0
      THEN [reference_sequences |-> <<>>,
            unplaced_unmapped_record_count |-> self.unplaced_unmapped_record_count]
      ELSE LET s1 == add_reference_sequences_builders_until(self, reference_sequence_count - 1)
           IN [reference_sequences |-> s1.reference_sequences,
               unplaced_unmapped_record_count |-> s1.unplaced_unmapped_record_count]


(***************************************************************************)
(* BCF lazy record reader: noodles-bcf/src/async/reader/lazy_record.rs     *)
(* The reader is the sequence of bytes it has left.  An io result is a     *)
(* record [kind, ...] with kind "ok" or the io::ErrorKind of the error.    *)
(***************************************************************************)
\* The value of the little-endian bytes b.
RECURSIVE from_le_bytes(_)
from_le_bytes(b) == IF b = <<>> THEN 0 ELSE Head(b) + 256 * from_le_bytes(Tail(b))

\* reader.read_exact(buf) for a buffer of n bytes: all n bytes, or
\* UnexpectedEof when the reader ends first (the bytes it had are consumed).
read_exact(reader, n) ==
    IF Len(reader) < n
      THEN [kind |-> "UnexpectedEof", bytes |-> <<>>, reader |-> <<>>]
      ELSE [kind |-> "ok", bytes |-> SubSeq(reader, 1, n),
            reader |-> SubSeq(reader, n + 1, Len(reader))]

\* reader.read_u32_le(): read_exact of 4 bytes, so UnexpectedEof both when
\* no byte is left and when one to three bytes are left.
read_u32_le(reader) ==
    LET r == read_exact(reader, 4)
    IN [kind |-> r.kind, reader |-> r.reader,
        n |-> IF r.kind = "ok" THEN from_le_bytes(r.bytes) ELSE 0]

\* The fixed-size fields of the shared block: chrom, pos, rlen, qual,
\* n_info/n_allele and n_fmt_sample, 4 bytes each.
SiteFixedLen == 24

\* read_site(buf, record): the shared block holds the fixed fields (the
\* variable-size fields are left out); n_fmt_sample, the last of them, is
\* n_fmt << 24 | n_sample.
read_site(buf) ==
    IF Len(buf) < SiteFixedLen
      THEN [kind |-> "UnexpectedEof", n_fmt |-> 0, n_sample |-> 0]
      ELSE [kind |-> "ok", n_fmt |-> buf[SiteFixedLen],
            n_sample |-> from_le_bytes(SubSeq(buf, SiteFixedLen - 3, SiteFixedLen - 1))]

\* lazy::Record::default(): site holds the raw fixed-size site fields.
LazyRecordDefault ==
    [site |-> <<>>, genotypes |-> <<>>, format_count |-> 0, sample_count |-> 0]

\* genotypes.resize(n, 0) followed by a read_exact that got only `bytes`
resize_and_fill(genotypes, n, bytes) ==
    [k \in 1..n |-> IF k <= Len(bytes) THEN bytes[k]
                    ELSE IF k <= Len(genotypes) THEN genotypes[k] ELSE 0]

LazyErr(kind, reader, record) ==
    [kind |-> kind, n |-> 0, reader |-> reader, record |-> record]

\* read_lazy_record(reader, buf, record) -> io::Result<usize>
read_lazy_record(reader, record) ==
    LET s == read_u32_le(reader)
    IN IF s.kind = "UnexpectedEof"
         THEN [kind |-> "ok", n |-> 0, reader |-> s.reader, record |-> record]
       ELSE
         LET i == read_u32_le(s.reader)
         IN IF i.kind # "ok" THEN LazyErr(i.kind, i.reader, record)
            ELSE
              LET shared == read_exact(i.reader, s.n)
              IN IF shared.kind # "ok" THEN LazyErr(shared.kind, shared.reader, record)
                 ELSE
                   LET site == read_site(shared.bytes)
                       sited == [record EXCEPT !.site = SubSeq(shared.bytes, 1, SiteFixedLen)]
                   IN IF site.kind # "ok" THEN LazyErr(site.kind, shared.reader, record)
                      ELSE
                        LET indiv == read_exact(shared.reader, i.n)
                        IN IF indiv.kind # "ok"
                             \* the site fields are written and genotypes is
                             \* resized before the read that fails; the bytes
                             \* that did arrive are in the buffer
                             THEN LazyErr(indiv.kind, indiv.reader,
                                          [sited EXCEPT !.genotypes =
                                             resize_and_fill(record.genotypes, i.n, shared.reader)])
                             ELSE [kind |-> "ok", n |-> s.n + i.n, reader |-> indiv.reader,
                                   record |-> [site |-> sited.site,
                                               genotypes |-> indiv.bytes,
                                               format_count |-> site.n_fmt,
                                               sample_count |-> site.n_sample]]

\* The future of read_lazy_record is pending on a stream of which only
\* `arrived` has come in: one of its four reads is waiting for bytes.
Pending(arrived) ==
    LET l_shared == from_le_bytes(SubSeq(arrived, 1, 4))
        l_indiv == from_le_bytes(SubSeq(arrived, 5, 8))
    IN IF Len(arrived) < 8 THEN TRUE
       ELSE IF Len(arrived) < 8 + l_shared THEN TRUE
       ELSE /\ read_site(SubSeq(arrived, 9, 8 + l_shared)).kind = "ok"
            /\ Len(arrived) < 8 + l_shared + l_indiv

\* Dropping the future while it is pending after k bytes of the reader have
\* come in: what the reads so far did stays done, the bytes they took stay
\* taken, and nothing after the pending await runs.
cancel_read_lazy_record(reader, record, k) ==
    [reader |-> SubSeq(reader, k + 1, Len(reader)),
     record |-> read_lazy_record(SubSeq(reader, 1, k), record).record]


(***************************************************************************)
(* BCF INFO field values: noodles-bcf/src/reader/record/info.rs            *)
(* A typed value is what read_value returns: [kind, ty, shape, vals] with  *)
(* ty "none" for None, shape "empty" for a zero count (Value::Int8(None)), *)
(* "scalar" or "array"; vals holds the raw elements (integers as signed    *)
(* numbers, floats as their bit patterns, strings as byte codes).          *)
(***************************************************************************)
\* The two's complement value of the little-endian bytes b.
signed_le(b) ==
    LET top == b[Len(b)]
    IN from_le_bytes(SubSeq(b, 1, Len(b) - 1))
         + Pow2(8 * (Len(b) - 1)) * (IF top >= 128 THEN top - 256 ELSE top)

\* Int8::from, Int16::from, Int32::from for a width of w bytes: the lowest
\* value is the missing sentinel, the next the end-of-vector sentinel, the
\* six after it are reserved.
int_class(w, n) ==
    LET lo == (0 - 128) * Pow2(8 * (w - 1))
    IN IF n = lo THEN "Missing"
       ELSE IF n = lo + 1 THEN "EndOfVector"
       ELSE IF n <= lo + 7 THEN "Reserved"
       ELSE "Value"

\* Float::from, on the bit pattern: 0x7f800001 is missing, 0x7f800002 the
\* end of a vector, 0x7f800003..0x7f800007 reserved.
float_class(bits) ==
    IF bits = 2139095041 THEN "Missing"
    ELSE IF bits = 2139095042 THEN "EndOfVector"
    ELSE IF bits \in 2139095043..2139095047 THEN "Reserved"
    ELSE "Value"

TypeNames == [t \in {1, 2, 3, 5, 7} |->
                CASE t = 1 -> "int8" [] t = 2 -> "int16" [] t = 3 -> "int32"
                  [] t = 5 -> "float" [] t = 7 -> "string"]
WidthOf == [t \in {1, 2, 3, 5, 7} |->
              CASE t = 1 -> 1 [] t = 2 -> 2 [] t = 3 -> 4 [] t = 5 -> 4 [] t = 7 -> 1]

\* read_value(reader): the type descriptor (count << 4) | type_id, then count
\* elements of the type's width (counts below 15).
read_value(bytes) ==
    LET d == bytes[1]
        t == d % 16
        count == d \div 16
        bad == [kind |-> "InvalidData", ty |-> "none", shape |-> "empty", vals |-> <<>>]
    IN IF bytes = <<>> THEN [bad EXCEPT !.kind = "UnexpectedEof"]
       ELSE IF t = 0 THEN [bad EXCEPT !.kind = "ok"]
       ELSE IF t \notin DOMAIN TypeNames THEN bad
       ELSE IF Len(bytes) < 1 + count * WidthOf[t] THEN [bad EXCEPT !.kind = "UnexpectedEof"]
       ELSE LET w == WidthOf[t]
                elem(k) == SubSeq(bytes, 2 + (k - 1) * w, 1 + k * w)
            IN [kind |-> "ok", ty |-> TypeNames[t],
                shape |-> IF count = 0 THEN "empty"
                          ELSE IF count = 1 \/ t = 7 THEN "scalar" ELSE "array",
                vals |-> [k \in 1..count |->
                            IF t = 5 \/ t = 7 THEN from_le_bytes(elem(k))
                            ELSE signed_le(elem(k))]]

InfoNone == [kind |-> "ok", some |-> FALSE, ty |-> "", v |-> <<>>]
InfoSome(ty, v) == [kind |-> "ok", some |-> TRUE, ty |-> ty, v |-> v]
InfoFail(kind) == [kind |-> kind, some |-> FALSE, ty |-> "", v |-> <<>>]
\* An optional element of an array value.
Elem(class, n) == IF class = "Missing" THEN <<>> ELSE <<n>>


\* type_mismatch_error(actual, expected)
type_mismatch_error == InfoFail("InvalidData")

\* read_info_field_integer_value, on the value read_value returned.  An
\* array element that is neither a value nor missing reaches todo!().
read_info_field_integer_value(v) ==
    LET w == CASE v.ty = "int8" -> 1 [] v.ty = "int16" -> 2 [] OTHER -> 4
        class(k) == int_class(w, v.vals[k])
    IN IF v.ty = "none" THEN InfoNone
       ELSE IF v.ty \notin {"int8", "int16", "int32"} THEN type_mismatch_error
       ELSE IF v.shape = "empty" THEN InfoNone
       ELSE IF v.shape = "scalar"
         THEN IF class(1) = "Missing" THEN InfoNone
              ELSE IF class(1) = "Value" THEN InfoSome("Integer", v.vals[1])
              ELSE type_mismatch_error
       ELSE IF \E k \in 1..Len(v.vals) : class(k) \notin {"Value", "Missing"}
         THEN InfoFail("panic")
       ELSE InfoSome("IntegerArray",
                     [k \in 1..Len(v.vals) |-> Elem(class(k), v.vals[k])])

\* read_info_field_flag_value
read_info_field_flag_value(v) ==
    IF v.ty = "none" \/ (v.ty = "int8" /\ v.shape = "scalar" /\ v.vals = <<1>>)
      THEN InfoSome("Flag", <<>>)
      ELSE type_mismatch_error

\* read_info_field_float_value
read_info_field_float_value(v) ==
    LET class(k) == float_class(v.vals[k])
    IN IF v.ty = "none" THEN InfoNone
       ELSE IF v.ty # "float" THEN type_mismatch_error
       ELSE IF v.shape = "empty" THEN InfoNone
       ELSE IF v.shape = "scalar"
         THEN IF class(1) = "Missing" THEN InfoNone
              ELSE IF class(1) = "Value" THEN InfoSome("Float", v.vals[1])
              ELSE type_mismatch_error
       ELSE IF \E k \in 1..Len(v.vals) : class(k) \notin {"Value", "Missing"}
         THEN InfoFail("panic")
       ELSE InfoSome("FloatArray",
                     [k \in 1..Len(v.vals) |-> Elem(class(k), v.vals[k])])

\* read_info_field_character_value: DELIMITER is ',' (44), MISSING_VALUE is
\* '.' (46).
read_info_field_character_value(v) ==
    IF v.ty = "none" THEN InfoNone
    ELSE IF v.ty # "string" THEN type_mismatch_error
    ELSE IF v.shape = "empty" THEN InfoNone
    ELSE IF Len(v.vals) = 0 THEN InfoFail("InvalidData")
    ELSE IF Len(v.vals) = 1 THEN InfoSome("Character", v.vals[1])
    ELSE InfoSome("CharacterArray",
                  LET chars == SelectSeq(v.vals, LAMBDA c : c # 44)
                  IN [k \in 1..Len(chars) |->
                        IF chars[k] = 46 THEN <<>> ELSE <<chars[k]>>])

\* read_info_field_string_value
read_info_field_string_value(v) ==
    IF v.ty = "none" THEN InfoNone
    ELSE IF v.ty # "string" THEN type_mismatch_error
    ELSE IF v.shape = "empty" THEN InfoNone
    ELSE InfoSome("String", v.vals)

\* read_info_field_value(reader, info), info.ty() being the declared type
read_info_field_value(bytes, info_ty) ==
    LET v == read_value(bytes)
    IN IF v.kind # "ok" THEN InfoFail(v.kind)
       ELSE CASE info_ty = "Integer" -> read_info_field_integer_value(v)
              [] info_ty = "Flag" -> read_info_field_flag_value(v)
              [] info_ty = "Float" -> read_info_field_float_value(v)
              [] info_ty = "Character" -> read_info_field_character_value(v)
              [] info_ty = "String" -> read_info_field_string_value(v)


(***************************************************************************)
(* CRAM record reader: noodles-cram/src/reader/record.rs                   *)
(* The reader holds the preservation map's flags, the data series of one   *)
(* slice as queues of decoded values (AP, CF's detached bit, RN) and       *)
(* prev_alignment_start.  An optional value is <<>> or <<v>>.  The other   *)
(* data series of a record do not reach the fields modelled here.          *)
(***************************************************************************)
I32Max == 2147483647

\* Reader::new(compression_header, ..., initial_alignment_start)
cram_reader_new(ap_delta, rn, recs, initial) ==
    [ap_data_series_delta |-> ap_delta, read_names_included |-> rn,
     in_seq_positions |-> [k \in 1..Len(recs) |-> recs[k].ap],
     detached |-> [k \in 1..Len(recs) |-> recs[k].detached],
     read_names |-> [k \in 1..Len(recs) |-> 100 + k],
     prev_alignment_start |-> initial]

\* Position::new(n): there is no position 0.
position_new(n) == IF n = 0 THEN <<>> ELSE <<n>>

\* read_alignment_start: the i32 sum panics on overflow in a debug build
\* and wraps in a release build.
read_alignment_start(self, profile) ==
    LET alignment_start_or_delta == Head(self.in_seq_positions)
        prev == IF self.prev_alignment_start = <<>> THEN 0
                ELSE self.prev_alignment_start[1]
        overflows == self.ap_data_series_delta /\ alignment_start_or_delta > I32Max - prev
        alignment_start ==
            IF ~self.ap_data_series_delta THEN alignment_start_or_delta
            ELSE IF overflows
              THEN (prev - I32Max - 1) + (alignment_start_or_delta - I32Max - 1)
              ELSE prev + alignment_start_or_delta
    IN IF overflows /\ profile = "debug" THEN [kind |-> "panic", value |-> <<>>]
       ELSE IF alignment_start < 0 THEN [kind |-> "InvalidData", value |-> <<>>]
       ELSE [kind |-> "ok", value |-> position_new(alignment_start)]

\* read_read_names: record.read_name, and the read names left in the slice
read_read_names(self, record) ==
    IF self.read_names_included
      THEN [read_name |-> <<Head(self.read_names)>>, read_names |-> Tail(self.read_names)]
      ELSE [read_name |-> record.read_name, read_names |-> self.read_names]

\* read_mate_data that leaves the read name to mate resolution.
read_mate_data_without_name(self, record, read_names) ==
    [read_name |-> record.read_name, read_names |-> read_names]

\* read_mate_data: a detached record carries its read name in its mate data
\* when the read names are not included.
read_mate_data(self, record, read_names) ==
    IF Head(self.detached) /\ ~self.read_names_included
      THEN [read_name |-> <<Head(read_names)>>, read_names |-> Tail(read_names)]
      ELSE [read_name |-> record.read_name, read_names |-> read_names]

CramRecordDefault == [alignment_start |-> <<>>, read_name |-> <<>>, detached |-> FALSE]

\* read_record: the record, and the reader after it
read_record(self, profile) ==
    LET record == [CramRecordDefault EXCEPT !.detached = Head(self.detached)]
        ap == read_alignment_start(self, profile)
        rn == read_read_names(self, record)
        md == read_mate_data(self, [record EXCEPT !.read_name = rn.read_name], rn.read_names)
    IN IF ap.kind # "ok" THEN [kind |-> ap.kind, record |-> record, self |-> self]
       ELSE [kind |-> "ok",
             record |-> [record EXCEPT !.alignment_start = ap.value,
                                       !.read_name = md.read_name],
             self |-> [self EXCEPT !.in_seq_positions = Tail(@), !.detached = Tail(@),
                                   !.read_names = md.read_names,
                                   !.prev_alignment_start = ap.value]]


(***************************************************************************)
(* CRAM Records iterator: noodles-cram/src/reader/records.rs               *)
(* The stream is a sequence of containers [eof, slices]: the EOF container *)
(* or a data container with its slices, a slice [bad, records] being the   *)
(* sequence of its records, or bad when it cannot be decoded.              *)
(***************************************************************************)
\* Reader::read_data_container: None for the EOF container, an error where
\* the stream has no container header left.
read_data_container(inner) ==
    IF inner = <<>> THEN [kind |-> "UnexpectedEof", container |-> <<>>, inner |-> inner]
    ELSE [kind |-> "ok",
          container |-> IF Head(inner).eof THEN <<>> ELSE <<Head(inner)>>,
          inner |-> Tail(inner)]

\* Records::new
records_new(reader) == [reader |-> reader, records |-> <<>>]

\* Records::read_container_records -> io::Result<bool>
read_container_records(self) ==
    LET r == read_data_container(self.reader)
        slices == r.container[1].slices
    IN IF r.kind # "ok" THEN [kind |-> r.kind, done |-> FALSE, self |-> self]
       ELSE IF r.container = <<>>
         THEN [kind |-> "ok", done |-> TRUE, self |-> [self EXCEPT !.reader = r.inner]]
       ELSE IF \E k \in 1..Len(slices) : slices[k].bad
         THEN [kind |-> "InvalidData", done |-> FALSE,
               self |-> [self EXCEPT !.reader = r.inner]]
       ELSE [kind |-> "ok", done |-> FALSE,
             self |-> [reader |-> r.inner,
                       records |-> Flatten([k \in 1..Len(slices) |-> slices[k].records])]]

\* Records::next
RECURSIVE records_next(_)
records_next(self) ==
    IF self.records # <<>>
      THEN [item |-> <<"record", Head(self.records)>>,
            self |-> [self EXCEPT !.records = Tail(@)]]
    ELSE LET r == read_container_records(self)
         IN IF r.kind # "ok" THEN [item |-> <<"err", r.kind>>, self |-> r.self]
            ELSE IF r.done THEN [item |-> <<"none">>, self |-> r.self]
            ELSE records_next(r.self)


(***************************************************************************)
(* CRAM value decoders: noodles-cram/src/reader/record.rs                  *)
(* An encoding is [variant, alphabet, len_encoding, value_encoding]: the   *)
(* alphabet of a Huffman encoding, the variants of the two encodings of a  *)
(* ByteArrayLen.  A cursor is [block, core]: the external block the        *)
(* encoding names (<<>> when the slice has none, else <<bytes left>>) and  *)
(* the values the core bit reader yields next.                             *)
(***************************************************************************)
EncodingVariants ==
    {"External", "Golomb", "Huffman", "ByteArrayLen", "ByteArrayStop", "Beta",
     "Subexp", "GolombRice", "Gamma"}
StopByte == 0

DecodeFail(kind, cursor) == [kind |-> kind, value |-> <<>>, cursor |-> cursor]
DecodeOk(value, cursor) == [kind |-> "ok", value |-> value, cursor |-> cursor]
\* The cursor after n bytes of its external block were taken.
Advance(cursor, n) ==
    [cursor EXCEPT !.block = <<SubSeq(@[1], n + 1, Len(@[1]))>>]

\* get_itf8(src): one byte below 0x80, or two bytes 10xxxxxx yyyyyyyy.
get_itf8(cursor) ==
    LET src == cursor.block[1]
    IN IF src = <<>> THEN DecodeFail("UnexpectedEof", cursor)
       ELSE IF src[1] < 128 THEN DecodeOk(src[1], Advance(cursor, 1))
       ELSE IF Len(src) < 2 THEN DecodeFail("UnexpectedEof", cursor)
       ELSE DecodeOk((src[1] % 64) * 256 + src[2], Advance(cursor, 2))

\* CanonicalHuffmanDecoder::decode and BitReader::read_u32 on the core data
core_read(cursor) ==
    IF cursor.core = <<>> THEN DecodeFail("UnexpectedEof", cursor)
    ELSE DecodeOk(Head(cursor.core), [cursor EXCEPT !.core = Tail(@)])

\* decode_byte
decode_byte(encoding, cursor) ==
    CASE encoding.variant = "External" ->
           IF cursor.block = <<>> THEN DecodeFail("InvalidData", cursor)
           ELSE IF cursor.block[1] = <<>> THEN DecodeFail("UnexpectedEof", cursor)
           ELSE DecodeOk(cursor.block[1][1], Advance(cursor, 1))
      [] encoding.variant = "Huffman" ->
           IF Len(encoding.alphabet) = 1 THEN DecodeOk(encoding.alphabet[1] % 256, cursor)
           ELSE LET r == core_read(cursor)
                IN IF r.kind = "ok" THEN DecodeOk(r.value % 256, r.cursor) ELSE r
      [] OTHER -> DecodeFail("panic", cursor)

\* decode_itf8
decode_itf8(encoding, cursor) ==
    CASE encoding.variant = "External" ->
           IF cursor.block = <<>> THEN DecodeFail("InvalidData", cursor)
           ELSE get_itf8(cursor)
      [] encoding.variant = "Huffman" ->
           IF Len(encoding.alphabet) = 1 THEN DecodeOk(encoding.alphabet[1], cursor)
           ELSE core_read(cursor)
      [] encoding.variant = "Beta" -> core_read(cursor)
      [] OTHER -> DecodeFail("panic", cursor)

\* One of the two encodings inside a ByteArrayLen.
Inner(encoding, variant) ==
    [encoding EXCEPT !.variant = variant, !.len_encoding = "External",
                     !.value_encoding = "External"]

\* The ByteArrayStop arm of decode_byte_array without `src.advance(1)`: the
\* stop byte stays in the block.
decode_byte_array_keeping_stop(encoding, cursor, buf) ==
    IF encoding.variant # "ByteArrayStop" \/ cursor.block = <<>>
      THEN DecodeFail("InvalidData", cursor)
      ELSE LET src == cursor.block[1]
               len == IndexOf(src, StopByte)
           IN IF len = Len(src) THEN DecodeFail("InvalidData", cursor)
              ELSE DecodeOk(SubSeq(src, 1, len), Advance(cursor, len))

\* decode_byte_array; buf is <<>> for None and <<n>> for a buffer of n bytes.
\* buf.unwrap() panics on None, vec![0; len as usize] on a negative len.
RECURSIVE decode_byte_array(_, _, _)
decode_byte_array(encoding, cursor, buf) ==
    CASE encoding.variant = "External" ->
           IF cursor.block = <<>> THEN DecodeFail("InvalidData", cursor)
           ELSE IF buf = <<>> THEN DecodeFail("panic", cursor)
           ELSE IF Len(cursor.block[1]) < buf[1] THEN DecodeFail("UnexpectedEof", cursor)
           ELSE DecodeOk(SubSeq(cursor.block[1], 1, buf[1]), Advance(cursor, buf[1]))
      [] encoding.variant = "ByteArrayLen" ->
           LET len == decode_itf8(Inner(encoding, encoding.len_encoding), cursor)
           IN IF len.kind # "ok" THEN len
              ELSE IF len.value < 0 THEN DecodeFail("panic", len.cursor)
              ELSE decode_byte_array(Inner(encoding, encoding.value_encoding),
                                     len.cursor, <<len.value>>)
      [] encoding.variant = "ByteArrayStop" ->
           IF cursor.block = <<>> THEN DecodeFail("InvalidData", cursor)
           ELSE LET src == cursor.block[1]
                    len == IndexOf(src, StopByte)
                IN IF len = Len(src) THEN DecodeFail("InvalidData", cursor)
                   ELSE DecodeOk(SubSeq(src, 1, len), Advance(cursor, len + 1))
      [] OTHER -> DecodeFail("panic", cursor)


(***************************************************************************)
(* SAM header parser: noodles-sam/src/header/parser.rs                     *)
(* A line is [kind, id]: kind "HD", "SQ", "RG", "PG" or "CO" with the      *)
(* reference sequence name, read group ID or program ID it carries, or     *)
(* "bad" for a line that is no valid record.                               *)
(***************************************************************************)
HeaderBuilderDefault ==
    [header |-> <<>>, reference_sequences |-> <<>>, read_groups |-> <<>>,
     programs |-> <<>>, comments |-> <<>>]

\* The arms of `builder = match record { ... }`.
builder_match(builder, record) ==
    CASE record.kind = "HD" -> [builder EXCEPT !.header = <<record.id>>]
      [] record.kind = "SQ" -> [builder EXCEPT !.reference_sequences = Append(@, record.id)]
      [] record.kind = "RG" -> [builder EXCEPT !.read_groups = Append(@, record.id)]
      [] record.kind = "PG" -> [builder EXCEPT !.programs = Append(@, record.id)]
      [] record.kind = "CO" -> [builder EXCEPT !.comments = Append(@, record.id)]

\* reference_sequence_names, read_group_ids and program_ids, by record kind
NoIds == [kind \in {"SQ", "RG", "PG"} |-> {}]
insert(ids, record) ==
    IF record.kind \in DOMAIN ids
      THEN [ids EXCEPT ![record.kind] = @ \cup {record.id}]
      ELSE ids

ParseErr(error) == [kind |-> "err", error |-> error, header |-> <<>>]

\* `for line in lines { ... }` and Ok(builder.build())
RECURSIVE parse_lines(_, _, _)
parse_lines(lines, builder, ids) ==
    IF lines = <<>> THEN [kind |-> "ok", error |-> "", header |-> <<builder>>]
    ELSE LET record == Head(lines)
         IN IF record.kind = "bad" THEN ParseErr("InvalidRecord")
            ELSE IF record.kind = "HD" THEN ParseErr("UnexpectedHeader")
            ELSE IF record.kind \in DOMAIN ids /\ record.id \in ids[record.kind]
              THEN ParseErr(CASE record.kind = "SQ" -> "DuplicateReferenceSequenceName"
                              [] record.kind = "RG" -> "DuplicateReadGroupId"
                              [] record.kind = "PG" -> "DuplicateProgramId")
            ELSE parse_lines(Tail(lines), builder_match(builder, record),
                             insert(ids, record))

\* parse that does not remember the name or ID of the first line.
parse_forgetting_first_line(s) ==
    IF s = <<>> THEN parse_lines(<<>>, HeaderBuilderDefault, NoIds)
    ELSE IF Head(s).kind = "bad" THEN ParseErr("InvalidRecord")
    ELSE parse_lines(Tail(s), builder_match(HeaderBuilderDefault, Head(s)), NoIds)

\* parse(s): the first line may be @HD and is handled on its own.
parse(s) ==
    IF s = <<>> THEN parse_lines(<<>>, HeaderBuilderDefault, NoIds)
    ELSE IF Head(s).kind = "bad" THEN ParseErr("InvalidRecord")
    ELSE parse_lines(Tail(s), builder_match(HeaderBuilderDefault, Head(s)),
                     insert(NoIds, Head(s)))


(***************************************************************************)
(* rANS 4x8 order-0 decoder: noodles-cram/src/rans/decode/order_0.rs       *)
(* The reader is the sequence of bytes it has left.                        *)
(***************************************************************************)
\* reader.read_u8()
read_u8(reader) ==
    IF reader = <<>> THEN [kind |-> "UnexpectedEof", n |-> 0, reader |-> reader]
    ELSE [kind |-> "ok", n |-> Head(reader), reader |-> Tail(reader)]

\* read_itf8(reader): one byte below 0x80, or two bytes 10xxxxxx yyyyyyyy.
read_itf8(reader) ==
    LET b0 == read_u8(reader)
        b1 == read_u8(b0.reader)
    IN IF b0.kind # "ok" \/ b0.n < 128 THEN b0
       ELSE IF b1.kind # "ok" THEN b1
       ELSE [kind |-> "ok", n |-> (b0.n % 64) * 256 + b1.n, reader |-> b1.reader]

\* The loop of read_frequencies_0, from the read of a frequency on; freqs is
\* the set of <<symbol, frequency>> entries written so far (later ones win).
\* `sym += 1` on a u8 of 255 panics in a debug build and wraps in a release
\* build.
RECURSIVE read_frequencies_0_loop(_, _, _, _, _)
read_frequencies_0_loop(reader, sym, rle, freqs, profile) ==
    LET f == read_itf8(reader)
        written == [s \in 0..255 |-> IF s = sym THEN f.n ELSE freqs[s]]
        next == read_u8(f.reader)
        run == read_u8(next.reader)
        fail(kind) == [kind |-> kind, freqs |-> freqs, reader |-> <<>>]
    IN IF f.kind # "ok" THEN fail(f.kind)
       ELSE IF rle > 0
         THEN IF sym = 255 /\ profile = "debug" THEN fail("panic")
              ELSE IF (sym + 1) % 256 = 0
                THEN [kind |-> "ok", freqs |-> written, reader |-> f.reader]
              ELSE read_frequencies_0_loop(f.reader, sym + 1, rle - 1, written, profile)
       ELSE IF next.kind # "ok" THEN fail(next.kind)
       ELSE IF sym < 255 /\ next.n = sym + 1
         THEN IF run.kind # "ok" THEN fail(run.kind)
              ELSE read_frequencies_0_loop(run.reader, next.n, run.n, written, profile)
       ELSE IF next.n = 0
         THEN [kind |-> "ok", freqs |-> written, reader |-> next.reader]
       ELSE read_frequencies_0_loop(next.reader, next.n, 0, written, profile)

\* read_frequencies_0(reader, freqs, cumulative_freqs)
read_frequencies_0(reader, profile) ==
    LET sym == read_u8(reader)
    IN IF sym.kind # "ok"
         THEN [kind |-> sym.kind, freqs |-> [s \in 0..255 |-> 0], reader |-> <<>>]
         ELSE read_frequencies_0_loop(sym.reader, sym.n, 0, [s \in 0..255 |-> 0], profile)

\* cumulative_freqs[i]: the sum of freqs below i (i <= 255), added up over
\* the symbols that have a frequency.
RECURSIVE sum_freqs(_, _)
sum_freqs(freqs, syms) ==
    IF syms = {} THEN 0
    ELSE LET s == CHOOSE x \in syms : TRUE
         IN freqs[s] + sum_freqs(freqs, syms \ {s})
cumulative_freq(freqs, i) == sum_freqs(freqs, {s \in 0..(i - 1) : freqs[s] # 0})

\* build_cumulative_freqs_symbols_table(cumulative_freqs)[f]: the scan stops
\* at the first symbol that is 255 or whose successor's cumulative frequency
\* exceeds f.
symbol_at(freqs, f) ==
    CHOOSE sym \in 0..255 :
        /\ sym = 255 \/ f < cumulative_freq(freqs, sym + 1)
        /\ \A t \in 0..(sym - 1) : f >= cumulative_freq(freqs, t + 1)

\* rans_renorm(reader, r): bytes are shifted in while r is below 1 << 23.
RECURSIVE rans_renorm(_, _)
rans_renorm(reader, r) ==
    IF r >= 8388608 THEN [kind |-> "ok", n |-> r, reader |-> reader]
    ELSE LET b == read_u8(reader)
         IN IF b.kind # "ok" THEN b ELSE rans_renorm(b.reader, r * 256 + b.n)

\* The symbol loop of decode, at output position k (0-based) of n.
RECURSIVE decode_symbols(_, _, _, _, _, _)
decode_symbols(reader, freqs, state, k, n, output) ==
    IF k >= n THEN [kind |-> "ok", output |-> output, reader |-> reader]
    ELSE LET j == (k % 4) + 1
             f == state[j] % 4096
             s == symbol_at(freqs, f)
             step == freqs[s] * (state[j] \div 4096) + f - cumulative_freq(freqs, s)
             r == rans_renorm(reader, step)
         IN IF r.kind # "ok"
              THEN [kind |-> r.kind, output |-> Append(output, s), reader |-> <<>>]
              ELSE decode_symbols(r.reader, freqs, [state EXCEPT ![j] = r.n],
                                  k + 1, n, Append(output, s))

\* decode(reader, output) for an output of n bytes
rans_decode_0(reader, n, profile) ==
    LET t == read_frequencies_0(reader, profile)
        raw == read_exact(t.reader, 16)
        state == [j \in 1..4 |-> from_le_bytes(SubSeq(raw.bytes, 4 * j - 3, 4 * j))]
    IN IF t.kind # "ok" THEN [kind |-> t.kind, output |-> <<>>, reader |-> <<>>]
       ELSE IF raw.kind # "ok" THEN [kind |-> raw.kind, output |-> <<>>, reader |-> <<>>]
       ELSE decode_symbols(raw.reader, t.freqs, state, 0, n, <<>>)


(***************************************************************************)
(* External data readers: noodles-cram/src/reader/record.rs                *)
(* readers is [core, blocks]: the values the core bit reader yields next   *)
(* and, for every block content id of the slice, the bytes its cursor has  *)
(* left.                                                                   *)
(***************************************************************************)
\* external_data_readers.get_mut(block_content_id), with the core reader:
\* the cursor the decoders work on.
get_mut(readers, block_content_id) ==
    [block |-> IF block_content_id \in DOMAIN readers.blocks
                 THEN <<readers.blocks[block_content_id]>> ELSE <<>>,
     core |-> readers.core]

\* The readers after a decoder worked on the cursor of block_content_id.
readers_after(readers, block_content_id, cursor) ==
    [core |-> cursor.core,
     blocks |-> [j \in DOMAIN readers.blocks |->
                   IF j = block_content_id THEN cursor.block[1] ELSE readers.blocks[j]]]

\* decode_external that takes the first block of the slice whatever the id.
decode_external_first_block(decoder, encoding, readers) ==
    LET id == CHOOSE j \in DOMAIN readers.blocks : \A k \in DOMAIN readers.blocks : j <= k
        cursor == get_mut(readers, id)
        r == IF decoder = "decode_byte" THEN decode_byte(encoding, cursor)
             ELSE decode_itf8(encoding, cursor)
    IN [kind |-> r.kind, value |-> r.value, readers |-> readers_after(readers, id, r.cursor)]

\* decode_byte / decode_itf8 on the readers of a slice
decode_external(decoder, encoding, readers) ==
    LET cursor == get_mut(readers, encoding.id)
        r == IF decoder = "decode_byte" THEN decode_byte(encoding, cursor)
             ELSE decode_itf8(encoding, cursor)
    IN [kind |-> r.kind, value |-> r.value,
        readers |-> readers_after(readers, encoding.id, r.cursor)]


(***************************************************************************)
(* Async SAM header reader: noodles-sam/src/async/reader.rs                *)
(* The reader is the sequence of bytes it has left; fill_buf hands out a   *)
(* non-empty front part of them, or nothing at the end of the stream.      *)
(***************************************************************************)
\* Longest stream handed to read_header.
MaxStreamLen == 4
\* Stands for i32::MAX: more rounds than a stream of the model has bytes, so
\* that the counter overflows only in rounds that read nothing.
IterMax == MaxStreamLen + 2
PREFIX == 64
LINE_FEED == 10

\* One pass through the loop body of read_header, fill_buf having returned
\* buf.  st is [reader, header_buf, is_eol, first, done]; first is i == 0.
\* One round of `for i in 0..` in read_header.  The counter i is an i32; it
\* is kept in -(IterMax + 1)..IterMax, IterMax standing for i32::MAX.  Taking
\* the value after i32::MAX from the range overflows: a panic where overflow
\* is checked (debug), a wrap to the least value where it is not (release).
read_header_step(st, buf) ==
    LET i == IndexOf(buf, LINE_FEED)
        read_eol == i < Len(buf)
        len == IF read_eol THEN i + 1 ELSE Len(buf)
    IN IF st.i = IterMax /\ st.profile = "debug"
         THEN [st EXCEPT !.panicked = TRUE]
       ELSE IF (st.i = 0 \/ st.is_eol) /\ (IF buf = <<>> THEN TRUE ELSE buf[1] # PREFIX)
         THEN [st EXCEPT !.done = TRUE]
         ELSE [st EXCEPT !.header_buf = @ \o SubSeq(buf, 1, len),
                         !.is_eol = read_eol,
                         !.i = IF @ = IterMax THEN -(IterMax + 1) ELSE @ + 1,
                         !.reader = SubSeq(@, len + 1, Len(@))]


(***************************************************************************)
(* CRAM file header block: noodles-cram/src/reader.rs                      *)
(* A block is [content_type, data], data being its decompressed bytes.     *)
(***************************************************************************)
\* str::from_utf8 on the bytes the model uses: ASCII bytes are valid, a lone
\* byte of 0x80 or above is not.
from_utf8(bytes) ==
    IF \E i \in 1..Len(bytes) : bytes[i] >= 128
      THEN [kind |-> "InvalidData", text |-> <<>>]
      ELSE [kind |-> "ok", text |-> bytes]

\* read_file_header_block(block): the length prefix is read and not used.
read_file_header_block(block) ==
    LET header_len == read_exact(block.data, 4)
    IN IF block.content_type # "FileHeader" THEN [kind |-> "InvalidData", text |-> <<>>]
       ELSE IF header_len.kind # "ok" THEN [kind |-> header_len.kind, text |-> <<>>]
       ELSE from_utf8(header_len.reader)


(***************************************************************************)
(* CRAM tag ids dictionary builder:                                        *)
(* noodles-cram/src/data_container/compression_header/preservation_map/    *)
(* tag_ids_dictionary/builder.rs                                           *)
(* A record's tags are a sequence of fields [tag, ty, value];              *)
(* keys_indices is a function from key tuples to indices.                  *)
(***************************************************************************)
\* record.tags().values().map(|field| field.into()).collect(): the (tag,
\* type) key of every field, in the record's order.
tag_keys(record) == [i \in 1..Len(record) |-> [tag |-> record[i].tag, ty |-> record[i].ty]]

\* update with insert in place of entry().or_insert(): a tuple seen again
\* takes the next index.
update_overwriting(keys_indices, record) ==
    LET keys == tag_keys(record)
        next_index == Cardinality(DOMAIN keys_indices)
    IN [k \in DOMAIN keys_indices \cup {keys} |->
          IF k = keys THEN next_index ELSE keys_indices[k]]

\* Builder::update(record)
update(keys_indices, record) ==
    LET keys == tag_keys(record)
        next_index == Cardinality(DOMAIN keys_indices)
    IN IF keys \in DOMAIN keys_indices THEN keys_indices
       ELSE [k \in DOMAIN keys_indices \cup {keys} |->
               IF k = keys THEN next_index ELSE keys_indices[k]]

\* Builder::build(): the key tuples sorted by index.
build_dictionary(keys_indices) ==
    LET lines == {<<k, keys_indices[k]>> : k \in DOMAIN keys_indices}
        indices == SortedSeq({l[2] : l \in lines})
    IN [i \in 1..Len(indices) |-> (CHOOSE l \in lines : l[2] = indices[i])[1]]


(***************************************************************************)
(* rANS Nx16 state arithmetic: noodles-cram/src/codecs/rans_nx16/encode.rs *)
(* A u32 is kept as its two 16-bit halves [hi, lo], so that every 32-bit   *)
(* state can be written down: its value is hi * 65536 + lo.                *)
(***************************************************************************)
\* normalize with `r >>= 8` in place of `r >>= 16`.
RECURSIVE normalize_shifting_8(_, _, _, _)
normalize_shifting_8(r, freq_i, bits, written) ==
    IF r.hi \div Pow2(15 - bits) >= freq_i
      THEN normalize_shifting_8([hi |-> r.hi \div 256,
                                 lo |-> (r.hi % 256) * 256 + r.lo \div 256],
                                freq_i, bits,
                                written \o <<r.lo \div 256, r.lo % 256>>)
      ELSE [r |-> r, written |-> written]

\* normalize(writer, r, freq_i, bits).  r >= (1 << (31 - bits)) * freq_i is
\* decided on the high half: the bound is a multiple of 1 << (31 - bits),
\* and r >> (31 - bits) is hi >> (15 - bits).  (The bound itself fits a u32
\* for the frequencies the model draws.)
RECURSIVE normalize(_, _, _, _)
normalize(r, freq_i, bits, written) ==
    IF r.hi \div Pow2(15 - bits) >= freq_i
      THEN normalize([hi |-> 0, lo |-> r.hi], freq_i, bits,
                     written \o <<r.lo \div 256, r.lo % 256>>)
      ELSE [r |-> r, written |-> written]

\* update(r, c, f, bits) = ((r / f) << bits) + c + (r % f) for r below
\* 1 << 31, as halves; overflow tells that the u32 arithmetic overflows (a
\* panic in a debug build, a wrapped value in a release build).
rans_update(r, c, f, bits) ==
    LET v == r.hi * 65536 + r.lo
        q == v \div f
        shifted_hi == (q * Pow2(bits - 8)) \div 256
        shifted_lo == (q % Pow2(16 - bits)) * Pow2(bits)
        low == shifted_lo + c + (v % f)
        hi == shifted_hi + low \div 65536
    IN [overflow |-> hi >= 65536, r |-> [hi |-> hi % 65536, lo |-> low % 65536]]


(***************************************************************************)
(* Bounds and input domains                                                *)
(***************************************************************************)
MaxSrcLen == 4
NumSyms == 3
MaxSmallFreq == 3
BigFreq == 8190
MaxSeqLen == 3
MaxRecLen == 2
MaxWrites == 2
MaxRefId == 2
MaxCalls == 4

\* Byte strings handed to encode: every string over two byte values up to
\* MaxSrcLen, the strings of the encoder's tests, and strings with 3, 5, 17
\* and 256 distinct byte values (the tiers of encode_pack).
SrcAlphabet == {97, 98}
Noodles == <<110, 111, 111, 100, 108, 101, 115>>
Nooooooooodles == <<110, 111, 111, 111, 111, 111, 111, 111, 111, 100, 108, 101, 115>>
\* every byte value once
AllBytes == [i \in 1..256 |-> i - 1]
SpecialInputs ==
    {Noodles, Nooooooooodles, <<97, 98, 99>>, <<1, 1, 2, 3, 3, 3, 5, 8, 8>>,
     [i \in 1..17 |-> i], [i \in 1..18 |-> (i + 1) \div 2], AllBytes}
SrcInputs == SeqsUpTo(SrcAlphabet, MaxSrcLen) \cup SpecialInputs
Profiles == {"debug", "release"}

\* Raw frequency tables handed to normalize_frequencies.
FreqValues == (0..MaxSmallFreq) \cup {BigFreq}
FreqTables == [1..NumSyms -> FreqValues]

\* Records handed to write_record: a sequence and quality scores of up to
\* MaxRecLen elements each.
BamRecords ==
    [read_name : {<<>>},
     sequence : SeqsUpTo({"A"}, MaxRecLen) \cup {<<"A", "C", "G", "T">>},
     quality_scores : SeqsUpTo({45}, MaxRecLen) \cup {<<45, 35, 43, 50>>}]
IoOutcomes == {"ok", "fail_u32", "fail_all"}

\* Alignment contexts handed to add_record; the chunk is the one of the
\* indexer's documentation.
NoContext == [some |-> FALSE, id |-> 0, start |-> 0, end |-> 0, is_mapped |-> FALSE]
Contexts ==
    {NoContext} \cup
    {[some |-> TRUE, id |-> r, start |-> sp[1], end |-> sp[2], is_mapped |-> TRUE] :
        r \in 0..MaxRefId, sp \in {<<8, 13>>, <<21, 34>>}}
DocChunk == <<144, 233>>


\* BCF streams: every prefix of two well-formed records (l_shared = 24,
\* l_indiv up to MaxIndiv), and of a record whose shared block is too short
\* to hold a site.
MaxIndiv == 2
SiteBlock(n_fmt, n_sample) == [k \in 1..20 |-> 0] \o <<n_sample, 0, 0, n_fmt>>
LazyRecordBytes(l_indiv) ==
    LittleEndian(SiteFixedLen, 4) \o LittleEndian(l_indiv, 4)
      \o SiteBlock(1, l_indiv) \o [k \in 1..l_indiv |-> 16 + k]
ShortSiteBytes == LittleEndian(2, 4) \o LittleEndian(1, 4) \o <<0, 0, 17>>
Prefixes(s) == {SubSeq(s, 1, k) : k \in 0..Len(s)}
LazyStreams ==
    UNION {Prefixes(LazyRecordBytes(a) \o LazyRecordBytes(b)) : a, b \in 0..MaxIndiv}
      \cup Prefixes(ShortSiteBytes)


\* INFO values as bytes: the absent value, and for every numeric type every
\* vector of up to MaxVecLen elements, each an ordinary value, the missing
\* sentinel, the end-of-vector sentinel or a reserved value; the strings of
\* the tests; a truncated value and an unknown type.
MaxVecLen == 2
InfoTypes == {"Integer", "Flag", "Float", "Character", "String"}
ElemBytes(t) ==
    LET w == WidthOf[t]
        zeros(n) == [k \in 1..n |-> 0]
    IN IF t = 5
         THEN {<<0, 0, 0, 0>>, <<0, 0, 128, 63>>} \cup {<<k, 0, 128, 127>> : k \in 1..3}
         ELSE {<<v>> \o zeros(w - 1) : v \in {1, 8, 13}}
                \cup {IF w = 1 THEN <<128 + k>> ELSE <<k>> \o zeros(w - 2) \o <<128>> :
                        k \in 0..2}
InfoBytes ==
    {<<0>>, <<17>>, <<20>>}
      \cup UNION {{<<16 * n + t>> \o Flatten(es) : es \in [1..n -> ElemBytes(t)]} :
                    n \in 0..MaxVecLen, t \in {1, 2, 3, 5}}
      \cup {<<7>>, <<23, 110>>, <<55, 110, 44, 100>>, <<55, 110, 44, 46>>,
            <<71, 110, 100, 108, 115>>}


\* Slices of up to MaxSliceRecs records: AP values that are negative, zero,
\* small and the largest i32; detached or not; with and without an initial
\* alignment start.
MaxSliceRecs == 2
ApValues == {-2, 0, 1, 5, I32Max}
SliceRecs == SeqsUpTo([ap : ApValues, detached : BOOLEAN], MaxSliceRecs)
InitialStarts == {<<>>, <<3>>, <<I32Max>>}


\* Streams of up to MaxContainers containers, each given by the numbers of
\* records of its slices (-1: a slice that cannot be decoded) or EofShape;
\* the records of a slice are numbered 100 * container + 10 * slice +
\* position, so that all differ.
MaxContainers == 3
MaxNextCalls == 6
EofShape == <<-2>>
SliceShapes == {<<>>, <<0>>, <<1>>, <<2>>, <<1, 1>>, <<0, 2>>, <<1, -1>>}
ContainerAt(c, shape) ==
    [eof |-> shape = EofShape,
     slices |-> IF shape = EofShape THEN <<>>
                ELSE [s \in 1..Len(shape) |->
                        [bad |-> shape[s] < 0,
                         records |-> [k \in 1..shape[s] |-> 100 * c + 10 * s + k]]]]
CramStreams ==
    {[c \in 1..Len(shapes) |-> ContainerAt(c, shapes[c])] :
        shapes \in SeqsUpTo(SliceShapes \cup {EofShape}, MaxContainers)}


\* Decoder calls: every encoding variant (Huffman with an alphabet of one or
\* two symbols, ByteArrayLen over implemented and unimplemented encodings),
\* cursors with and without the external block and core data, and for
\* decode_byte_array no buffer or a buffer of one or five bytes.
Encodings ==
    {[variant |-> v, alphabet |-> a, len_encoding |-> l, value_encoding |-> w] :
        v \in EncodingVariants, a \in {<<65>>, <<65, 66>>, <<-1>>},
        l \in {"External", "Huffman", "Gamma"},
        w \in {"External", "ByteArrayStop", "Subexp"}}
Cursors ==
    [block : {<<>>, <<<<>>>>, <<<<7>>>>, <<<<2, 7, 0, 9>>>>, <<<<5, 0, 6, 0>>>>},
     core : {<<>>, <<66>>}]
DecodeCalls ==
    [decoder : {"decode_byte", "decode_itf8"}, encoding : Encodings,
     cursor : Cursors, buf : {<<>>}]
      \cup [decoder : {"decode_byte_array"}, encoding : Encodings,
            cursor : Cursors, buf : {<<>>, <<1>>, <<5>>}]


\* Headers of up to MaxLines lines; names and IDs from a set of two.
MaxLines == 3
HeaderLines ==
    [kind : {"SQ", "RG", "PG"}, id : {"a", "b"}]
      \cup [kind : {"HD", "CO", "bad"}, id : {"a"}]

\* Order-0 streams: a frequency table for the symbols 97 and 98, four
\* rANS states and renormalization bytes, for outputs of up to MaxOutLen
\* bytes.  A table is normalized when its frequencies sum to 4096.
MaxOutLen == 5
TOTAL_FREQ == 4096
FreqPairs == {<<4095, 1>>, <<2048, 2048>>, <<4095, 2>>, <<1, 1>>, <<100, 27>>}
Itf8Bytes(n) == IF n < 128 THEN <<n>> ELSE <<128 + n \div 256, n % 256>>
FreqTableBytes(p) == <<97>> \o Itf8Bytes(p[1]) \o <<98, 0>> \o Itf8Bytes(p[2]) \o <<0>>
\* a run of symbols that ends at 255 with one more announced
RunPast255 == <<254, 1, 255, 1, 1, 1>>
StateLows == {<<0, 0>>, <<255, 15>>}
StateBytes(lo) == Flatten([j \in 1..4 |-> <<lo[1], lo[2], 128, 0>>])
RenormBytes == <<1, 2>>
Rans0Streams ==
    UNION {Prefixes(FreqTableBytes(p) \o StateBytes(lo) \o RenormBytes) :
             p \in FreqPairs, lo \in StateLows}
    \cup {RunPast255}
SumFreqs(freqs) == cumulative_freq(freqs, 255) + freqs[255]


\* Slices with one or two external blocks (ids 1 and 2; id 3 is never
\* present) and core data, and up to MaxDecodes decodes with External or a
\* two-symbol Huffman encoding.
MaxDecodes == 3
ExternalReaders ==
    {[core |-> <<66, 65>>, blocks |-> (1 :> <<2, 7, 0, 9>>) @@ (2 :> <<130, 5, 3>>)],
     [core |-> <<66>>, blocks |-> (1 :> <<7>>) @@ (2 :> <<>>)],
     [core |-> <<>>, blocks |-> (2 :> <<13, 129>>)]}
ExternalEncodings ==
    [variant : {"External"}, id : 1..3, alphabet : {<<>>}]
      \cup [variant : {"Huffman"}, id : {0}, alphabet : {<<65, 66>>}]


\* Streams of up to MaxStreamLen bytes over '@', line feed and 'x'.
SamStreams == SeqsUpTo({PREFIX, LINE_FEED, 120}, MaxStreamLen)

\* The leading lines of a stream that start with '@', the last one with or
\* without its line feed.
RECURSIVE LeadingHeaderLines(_)
LeadingHeaderLines(stream) ==
    IF stream = <<>> THEN <<>>
    ELSE IF stream[1] # PREFIX THEN <<>>
    ELSE LET i == IndexOf(stream, LINE_FEED)
             len == IF i < Len(stream) THEN i + 1 ELSE Len(stream)
         IN SubSeq(stream, 1, len)
              \o LeadingHeaderLines(SubSeq(stream, len + 1, Len(stream)))


\* Blocks whose data is a length prefix of 0..MaxHeaderLen and up to
\* MaxHeaderLen + 1 bytes over 'n', the padding byte 0 and 0xff, and blocks
\* with fewer than four bytes of data.
MaxHeaderLen == 2
HeaderBlocks ==
    [content_type : {"FileHeader", "ExternalData"},
     data : {LittleEndian(l, 4) \o body :
               l \in 0..MaxHeaderLen, body \in SeqsUpTo({110, 0, 255}, MaxHeaderLen + 1)}
            \cup {<<>>, <<1, 0>>}]


\* Records handed to update: no tags, one tag with two values, the same tag
\* with another type, and two tags in both orders; up to MaxUpdates calls.
MaxUpdates == 3
NH(ty, value) == [tag |-> "NH", ty |-> ty, value |-> value]
CO == [tag |-> "CO", ty |-> "String", value |-> 0]
TagRecords ==
    {<<>>, <<NH("Int8", 1)>>, <<NH("Int8", 2)>>, <<NH("Int16", 1)>>,
     <<NH("Int8", 1), CO>>, <<CO, NH("Int8", 2)>>}

\* The distinct elements of a sequence in order of first occurrence.
RECURSIVE FirstOccurrences(_)
FirstOccurrences(s) ==
    IF s = <<>> THEN <<>>
    ELSE LET front == FirstOccurrences(SubSeq(s, 1, Len(s) - 1))
         IN IF s[Len(s)] \in Range(front) THEN front ELSE Append(front, s[Len(s)])


\* States, frequencies and cumulative frequencies handed to normalize and
\* update: for every frequency f of the model, the states around f << 19
\* and the extremes of the 32-bit range, and the cumulative frequencies 0
\* and 4096 - f.  The frequencies are 1..MaxLowFreq and the top of the range.
MaxLowFreq == 3
BITS == 12
Frequencies == (1..MaxLowFreq) \cup {2048, 4095, 4096}
StateHalves(f) ==
    [hi : {0, 1, 8 * f - 1, 8 * f, 8 * f + 1, 32767, 32768, 65535} \cap (0..65535),
     lo : {0, 1, 65535}]
NormInputs ==
    UNION {[r : StateHalves(f), f : {f}, c : {0, 4096 - f}] : f \in Frequencies}


(***************************************************************************)
(* Initial conditions                                                      *)
(***************************************************************************)
NoResult == EncFail("none")

RansIdle == rn_pc = "idle" /\ rn_flags = {} /\ rn_src = <<>> /\ rn_res = NoResult
NormIdle == nf_pc = "idle" /\ nf_freq = <<>> /\ nf_out = <<>>
SeqIdle  == sq_pc = "idle" /\ sq_seq = <<>> /\ sq_dst = <<>>
BamIdle  == w_pc = "idle" /\ w_inner = <<>> /\ w_buf = <<>> /\ w_log = <<>>
CsiIdle  ==
    /\ ix_pc = "idle" /\ indexer = indexer_new(14, 5) /\ ix_last = [op |-> "none"]
    /\ ix_index = [reference_sequences |-> <<>>, unplaced_unmapped_record_count |-> 0]
    /\ ix_nulls = 0 /\ ix_calls = 0

LazyIdle == lz_pc = "idle" /\ lz_reader = <<>> /\ lz_last = [op |-> "none"]
InfoIdle == inf_pc = "idle" /\ inf_in = <<>> /\ inf_out = InfoFail("none")
CramRecIdle == cr_pc = "idle" /\ cr_in = <<>> /\ cr_out = <<>>
RecordsIdle == it_pc = "idle" /\ it_in = <<>> /\ it_out = <<>>
DecodersIdle == dc_pc = "idle" /\ dc_in = <<>> /\ dc_out = DecodeFail("none", <<>>)
HeaderIdle == hp_pc = "idle" /\ hp_in = <<>> /\ hp_out = ParseErr("none")
Rans0Idle == r0_pc = "idle" /\ r0_in = <<>> /\ r0_out = <<>>
ExternalIdle == ex_pc = "idle" /\ ex_readers = <<>> /\ ex_log = <<>>
SamHeaderIdle == sh_pc = "idle" /\ sh_in = <<>> /\ sh_out = <<>>
FileHeaderIdle == fh_pc = "idle" /\ fh_in = <<>> /\ fh_out = <<>>
TagIdsIdle == td_pc = "idle" /\ td_builder = <<>> /\ td_log = <<>>
NormStateIdle == ns_pc = "idle" /\ ns_in = <<>> /\ ns_out = <<>>

\* Every subsystem but the named one is idle.
IdleBut(name) ==
    /\ name # "rans" => RansIdle
    /\ name # "norm" => NormIdle
    /\ name # "seq" => SeqIdle
    /\ name # "bam" => BamIdle
    /\ name # "csi" => CsiIdle
    /\ name # "lazy" => LazyIdle
    /\ name # "info" => InfoIdle
    /\ name # "cram_record" => CramRecIdle
    /\ name # "records" => RecordsIdle
    /\ name # "decoders" => DecodersIdle
    /\ name # "header" => HeaderIdle
    /\ name # "rans0" => Rans0Idle
    /\ name # "external" => ExternalIdle
    /\ name # "sam_header" => SamHeaderIdle
    /\ name # "file_header" => FileHeaderIdle
    /\ name # "tag_ids" => TagIdsIdle
    /\ name # "norm_state" => NormStateIdle

RansInit ==
    /\ rn_pc = "start" /\ rn_flags \in SUBSET FlagNames /\ rn_src \in SrcInputs
    /\ rn_res = NoResult
    /\ IdleBut("rans")

NormInit ==
    /\ nf_pc = "start" /\ nf_freq \in FreqTables /\ nf_out = <<>>
    /\ IdleBut("norm")

SeqInit ==
    /\ sq_pc = "start" /\ sq_seq \in SeqsUpTo(Bases, MaxSeqLen) \cup {<<"A", "C", "G", "T">>}
    /\ sq_dst = <<>>
    /\ IdleBut("seq")

\* Writer::from(inner): an empty scratch buffer over an empty stream.
BamInit ==
    /\ w_pc = "open" /\ w_inner = <<>> /\ w_buf = <<>> /\ w_log = <<>>
    /\ IdleBut("bam")

\* Indexer::new(14, 5)
CsiInit ==
    /\ ix_pc = "open" /\ indexer = indexer_new(14, 5) /\ ix_last = [op |-> "none"]
    /\ ix_index = [reference_sequences |-> <<>>, unplaced_unmapped_record_count |-> 0]
    /\ ix_nulls = 0 /\ ix_calls = 0
    /\ IdleBut("csi")

\* A reader over a stream positioned directly after the header.
LazyInit ==
    /\ lz_pc = "open" /\ lz_reader \in LazyStreams /\ lz_last = [op |-> "none"]
    /\ IdleBut("lazy")


\* A reader over the bytes of one typed value, and the header's INFO type.
InfoInit ==
    /\ inf_pc = "start"
    /\ inf_in \in [bytes : InfoBytes, ty : InfoTypes]
    /\ inf_out = InfoFail("none")
    /\ IdleBut("info")


\* Reader::new over one slice; cr_out is the reader and the records read.
CramRecInit ==
    /\ cr_pc = "open"
    /\ cr_in \in [ap_delta : BOOLEAN, rn : BOOLEAN, recs : SliceRecs,
                  initial : InitialStarts]
    /\ cr_out = [self |-> cram_reader_new(cr_in.ap_delta, cr_in.rn, cr_in.recs, cr_in.initial),
                 log |-> <<>>]
    /\ IdleBut("cram_record")


\* reader.records(repository, header) at the start of the first container;
\* it_out is the iterator and the items it has returned.
RecordsInit ==
    /\ it_pc = "open" /\ it_in \in CramStreams
    /\ it_out = [self |-> records_new(it_in), log |-> <<>>]
    /\ IdleBut("records")


\* One call of a value decoder.
DecodersInit ==
    /\ dc_pc = "start" /\ dc_in \in DecodeCalls
    /\ dc_out = DecodeFail("none", dc_in.cursor)
    /\ IdleBut("decoders")


\* A raw header to parse.
HeaderInit ==
    /\ hp_pc = "start" /\ hp_in \in SeqsUpTo(HeaderLines, MaxLines)
    /\ hp_out = ParseErr("none")
    /\ IdleBut("header")


Rans0Init ==
    /\ IdleBut("rans0")
    /\ r0_pc = "ready"
    /\ r0_in \in Rans0Streams
    /\ r0_out = <<>>


\* The readers of one slice, nothing decoded yet.
ExternalInit ==
    /\ ex_pc = "open" /\ ex_readers \in ExternalReaders /\ ex_log = <<>>
    /\ IdleBut("external")


\* read_header is called on a stream positioned at its start.
SamHeaderInit ==
    /\ sh_pc = "loop"
    /\ sh_in \in SamStreams
    /\ \E profile \in Profiles :
         sh_out = [reader |-> sh_in, header_buf |-> <<>>, is_eol |-> FALSE,
                   i |-> 0, done |-> FALSE, panicked |-> FALSE,
                   profile |-> profile]
    /\ IdleBut("sam_header")


FileHeaderInit ==
    /\ fh_pc = "start" /\ fh_in \in HeaderBlocks /\ fh_out = <<>>
    /\ IdleBut("file_header")


\* Builder::default()
TagIdsInit ==
    /\ td_pc = "open" /\ td_builder = <<>>
    /\ td_log = [records |-> <<>>, prev |-> <<>>, dictionary |-> <<>>]
    /\ IdleBut("tag_ids")


NormStateInit ==
    /\ ns_pc = "start" /\ ns_in \in NormInputs /\ ns_out = <<>>
    /\ IdleBut("norm_state")


(***************************************************************************)
(* Actions                                                                 *)
(***************************************************************************)
\* encode(flags, src)
Encode ==
    /\ rn_pc = "start"
    /\ \E profile \in Profiles : rn_res' = encode(rn_flags, rn_src, profile)
    /\ rn_pc' = "encoded"
    /\ UNCHANGED <<rn_flags, rn_src, but_rn>>

\* normalize_frequencies(frequencies)
Normalize ==
    /\ nf_pc = "start"
    /\ nf_out' = normalize_frequencies(nf_freq)
    /\ nf_pc' = "done"
    /\ UNCHANGED <<nf_freq, but_nf>>

\* put_sequence(dst, sequence) on an empty dst
PutSequence ==
    /\ sq_pc = "start"
    /\ sq_dst' = put_sequence(sq_seq)
    /\ sq_pc' = "done"
    /\ UNCHANGED <<sq_seq, but_sq>>

\* writer.write_record(header, record); the log keeps the record, the result
\* and the stream's length before and after the call.
WriteRecord ==
    /\ w_pc = "open"
    /\ Len(w_log) < MaxWrites
    /\ \E record \in BamRecords, io \in IoOutcomes :
         LET r == write_record(w_inner, w_buf, record, io)
         IN \* the underlying writer is not reached when the encoding fails
            /\ r.res = "InvalidInput" => io = "ok"
            /\ w_inner' = r.inner
            /\ w_buf' = r.buf
            /\ w_log' = Append(w_log, [record |-> record, res |-> r.res, io |-> io,
                                       pre |-> Len(w_inner), post |-> Len(r.inner)])
    /\ UNCHANGED <<w_pc, but_w>>

\* indexer.add_record(alignment_context, chunk)
AddRecord ==
    /\ ix_pc = "open"
    /\ ix_calls < MaxCalls
    /\ \E ctx \in Contexts :
         LET r == add_record(indexer, ctx, DocChunk)
         IN /\ indexer' = r.self
            /\ ix_last' = [op |-> "add_record", ctx |-> ctx, res |-> r.res, pre |-> indexer]
            /\ ix_nulls' = IF ctx.some THEN ix_nulls ELSE ix_nulls + 1
    /\ ix_calls' = ix_calls + 1
    /\ UNCHANGED <<ix_pc, ix_index, but_ix>>

\* indexer.build(reference_sequence_count), which consumes the indexer
Build ==
    /\ ix_pc = "open"
    /\ \E n \in 0..(MaxRefId + 1) :
         /\ ix_index' = build(indexer, n)
         /\ ix_last' = [op |-> "build", count |-> n, pre |-> indexer]
    /\ ix_pc' = "built"
    /\ UNCHANGED <<indexer, ix_nulls, ix_calls, but_ix>>

\* read_lazy_record(reader, buf, record); the reader is not used after an
\* error.
\* The record the caller passes: the one it passed to the call before.
CallerRecord == IF lz_last.op = "none" THEN LazyRecordDefault ELSE lz_last.record

ReadLazyRecord ==
    /\ lz_pc = "open"
    /\ LET r == read_lazy_record(lz_reader, CallerRecord)
       IN /\ lz_reader' = r.reader
          /\ lz_last' = [op |-> "read_lazy_record", pre |-> lz_reader,
                         before |-> CallerRecord,
                         kind |-> r.kind, n |-> r.n, record |-> r.record]
          /\ lz_pc' = IF r.kind # "ok" THEN "failed"
                      ELSE IF r.n = 0 THEN "eof" ELSE "open"
    /\ UNCHANGED but_lz


\* The future of read_lazy_record(record) is dropped at a suspension point.
CancelReadLazyRecord ==
    /\ lz_pc = "open"
    /\ \E k \in 0..Len(lz_reader) :
         /\ Pending(SubSeq(lz_reader, 1, k))
         /\ LET c == cancel_read_lazy_record(lz_reader, CallerRecord, k)
            IN /\ lz_reader' = c.reader
               /\ lz_last' = [op |-> "cancel", pre |-> lz_reader,
                              before |-> CallerRecord,
                              kind |-> "cancelled", n |-> k, record |-> c.record]
    /\ lz_pc' = "cancelled"
    /\ UNCHANGED but_lz

\* read_info_field_value(reader, info)
ReadInfoFieldValue ==
    /\ inf_pc = "start"
    /\ inf_out' = read_info_field_value(inf_in.bytes, inf_in.ty)
    /\ inf_pc' = "done"
    /\ UNCHANGED <<inf_in, but_inf>>


\* reader.read_record(), once per record of the slice; the log keeps the
\* result, prev_alignment_start before the call and the number of read names
\* the call took from the slice.
ReadRecord ==
    /\ cr_pc = "open"
    /\ cr_out.self.in_seq_positions # <<>>
    /\ \E profile \in Profiles :
         LET r == read_record(cr_out.self, profile)
         IN /\ cr_out' = [self |-> r.self,
                          log |-> Append(cr_out.log,
                                    [kind |-> r.kind, record |-> r.record,
                                     prev |-> cr_out.self.prev_alignment_start,
                                     names |-> Len(cr_out.self.read_names)
                                                 - Len(r.self.read_names)])]
            /\ cr_pc' = IF r.kind = "ok" THEN "open" ELSE "failed"
    /\ UNCHANGED <<cr_in, but_cr>>


\* records.next()
RecordsNext ==
    /\ it_pc = "open"
    /\ Len(it_out.log) < MaxNextCalls
    /\ LET r == records_next(it_out.self)
       IN it_out' = [self |-> r.self, log |-> Append(it_out.log, r.item)]
    /\ UNCHANGED <<it_pc, it_in, but_it>>


\* decode_byte(encoding, core_data_reader, external_data_readers)
DecodeByte ==
    /\ dc_pc = "start" /\ dc_in.decoder = "decode_byte"
    /\ dc_out' = decode_byte(dc_in.encoding, dc_in.cursor)
    /\ dc_pc' = "done"
    /\ UNCHANGED <<dc_in, but_dc>>

\* decode_itf8(encoding, core_data_reader, external_data_readers)
DecodeItf8 ==
    /\ dc_pc = "start" /\ dc_in.decoder = "decode_itf8"
    /\ dc_out' = decode_itf8(dc_in.encoding, dc_in.cursor)
    /\ dc_pc' = "done"
    /\ UNCHANGED <<dc_in, but_dc>>

\* decode_byte_array(encoding, core_data_reader, external_data_readers, buf)
DecodeByteArray ==
    /\ dc_pc = "start" /\ dc_in.decoder = "decode_byte_array"
    /\ dc_out' = decode_byte_array(dc_in.encoding, dc_in.cursor, dc_in.buf)
    /\ dc_pc' = "done"
    /\ UNCHANGED <<dc_in, but_dc>>


\* parse(s)
Parse ==
    /\ hp_pc = "start"
    /\ hp_out' = parse(hp_in)
    /\ hp_pc' = "done"
    /\ UNCHANGED <<hp_in, but_hp>>


\* decode(reader, output): the table, the states and the symbols
Decode0 ==
    /\ r0_pc = "ready"
    /\ \E n \in 0..MaxOutLen, profile \in Profiles :
         r0_out' = [n |-> n, table |-> read_frequencies_0(r0_in, profile),
                    res |-> rans_decode_0(r0_in, n, profile)]
    /\ r0_pc' = "done"
    /\ UNCHANGED <<r0_in, but_r0>>


\* decode_byte or decode_itf8 (encoding, core_data_reader, external_data_readers)
DecodeExternal ==
    /\ ex_pc = "open"
    /\ Len(ex_log) < MaxDecodes
    /\ \E decoder \in {"decode_byte", "decode_itf8"}, encoding \in ExternalEncodings :
         LET r == decode_external(decoder, encoding, ex_readers)
         IN /\ ex_readers' = r.readers
            /\ ex_log' = Append(ex_log, [decoder |-> decoder, encoding |-> encoding,
                                         kind |-> r.kind, value |-> r.value,
                                         pre |-> ex_readers])
    /\ UNCHANGED <<ex_pc, but_ex>>


\* One iteration of the loop of read_header: fill_buf, then break or consume.
ReadHeaderStep ==
    /\ sh_pc = "loop"
    /\ \E k \in (IF sh_out.reader = <<>> THEN {0} ELSE 1..Len(sh_out.reader)) :
         sh_out' = read_header_step(sh_out, SubSeq(sh_out.reader, 1, k))
    /\ sh_pc' = IF sh_out'.done THEN "done"
              ELSE IF sh_out'.panicked THEN "panic" ELSE "loop"
    /\ UNCHANGED <<sh_in, but_sh>>


\* read_file_header_block(block)
ReadFileHeaderBlock ==
    /\ fh_pc = "start"
    /\ fh_out' = read_file_header_block(fh_in)
    /\ fh_pc' = "done"
    /\ UNCHANGED <<fh_in, but_fh>>


\* builder.update(record)
Update ==
    /\ td_pc = "open"
    /\ Len(td_log.records) < MaxUpdates
    /\ \E record \in TagRecords :
         /\ td_builder' = update(td_builder, record)
         /\ td_log' = [td_log EXCEPT !.records = Append(@, record), !.prev = td_builder]
    /\ UNCHANGED <<td_pc, but_td>>

\* builder.build(), which consumes the builder
BuildDictionary ==
    /\ td_pc = "open"
    /\ td_log' = [td_log EXCEPT !.dictionary = build_dictionary(td_builder),
                                !.prev = td_builder]
    /\ td_pc' = "built"
    /\ UNCHANGED <<td_builder, but_td>>


\* normalize(writer, r, freq_i, bits)
NormalizeState ==
    /\ ns_pc = "start"
    /\ ns_out' = [normalized |-> normalize(ns_in.r, ns_in.f, BITS, <<>>),
                  updated |-> [overflow |-> FALSE, r |-> ns_in.r]]
    /\ ns_pc' = "normalized"
    /\ UNCHANGED <<ns_in, but_ns>>

\* update(r, c, f, bits) on the normalized state
UpdateState ==
    /\ ns_pc = "normalized"
    /\ ns_out' = [ns_out EXCEPT
                    !.updated = rans_update(ns_out.normalized.r, ns_in.c, ns_in.f, BITS)]
    /\ ns_pc' = "updated"
    /\ UNCHANGED <<ns_in, but_ns>>


(***************************************************************************)
(* Specifications                                                          *)
(***************************************************************************)
RansNext == Encode
SpecRans == RansInit /\ [][RansNext]_vars

NormNext == Normalize
SpecNorm == NormInit /\ [][NormNext]_vars

SeqNext == PutSequence
SpecSeq == SeqInit /\ [][SeqNext]_vars

BamNext == WriteRecord
SpecBam == BamInit /\ [][BamNext]_vars

CsiNext == AddRecord \/ Build
SpecCsi == CsiInit /\ [][CsiNext]_vars

LazyNext == ReadLazyRecord \/ CancelReadLazyRecord
SpecLazy == LazyInit /\ [][LazyNext]_vars


InfoNext == ReadInfoFieldValue
SpecInfo == InfoInit /\ [][InfoNext]_vars


CramRecNext == ReadRecord
SpecCramRec == CramRecInit /\ [][CramRecNext]_vars


RecordsSysNext == RecordsNext
SpecRecords == RecordsInit /\ [][RecordsSysNext]_vars


DecodersNext == DecodeByte \/ DecodeItf8 \/ DecodeByteArray
SpecDecoders == DecodersInit /\ [][DecodersNext]_vars


HeaderNext == Parse
SpecHeader == HeaderInit /\ [][HeaderNext]_vars


Rans0Next == Decode0
SpecRans0 == Rans0Init /\ [][Rans0Next]_vars


ExternalNext == DecodeExternal
SpecExternal == ExternalInit /\ [][ExternalNext]_vars


\* The loop keeps running until it breaks.
SamHeaderNext == ReadHeaderStep
SpecSamHeader == SamHeaderInit /\ [][SamHeaderNext]_vars /\ WF_vars(SamHeaderNext)


FileHeaderNext == ReadFileHeaderBlock
SpecFileHeader == FileHeaderInit /\ [][FileHeaderNext]_vars


TagIdsNext == Update \/ BuildDictionary
SpecTagIds == TagIdsInit /\ [][TagIdsNext]_vars


NormStateNext == NormalizeState \/ UpdateState
SpecNormState == NormStateInit /\ [][NormStateNext]_vars


Init ==
    \/ RansInit \/ NormInit \/ SeqInit \/ BamInit \/ CsiInit
    \/ LazyInit \/ InfoInit \/ CramRecInit \/ RecordsInit \/ DecodersInit
    \/ HeaderInit \/ Rans0Init \/ ExternalInit \/ SamHeaderInit
    \/ FileHeaderInit \/ TagIdsInit \/ NormStateInit
Next ==
    \/ Encode \/ Normalize \/ PutSequence \/ WriteRecord \/ AddRecord \/ Build
    \/ ReadLazyRecord \/ CancelReadLazyRecord \/ ReadInfoFieldValue \/ ReadRecord \/ RecordsNext
    \/ DecodeByte \/ DecodeItf8 \/ DecodeByteArray \/ Parse \/ Decode0
    \/ DecodeExternal \/ ReadHeaderStep \/ ReadFileHeaderBlock
    \/ Update \/ BuildDictionary \/ NormalizeState \/ UpdateState
Spec == Init /\ [][Next]_vars


(***************************************************************************)
(* Properties                                                              *)
(***************************************************************************)

\* C1: rANS Nx16 round trip.  For every byte string and every flag set without
\* NO_SIZE whose preconditions the string meets (PACK: at most 16 distinct byte
\* values), encode returns a stream and decoding that stream gives the string.
\* Violated: encode_rle's assertion aborts encode for an input none of whose
\* byte values has a positive run score.
C1_RoundTrip ==
    (/\ rn_pc = "encoded"
     /\ "NO_SIZE" \notin rn_flags
     /\ ("PACK" \in rn_flags => Cardinality(Range(rn_src)) <= 16))
    => (rn_res.kind = "ok" /\ decode(rn_res, Len(rn_src)) = rn_src)

\* C2: frequency normalization.  For every raw table with a non-zero total the
\* normalized table sums to exactly SCALE, every non-zero raw count is
\* normalized to at least 1 and every zero raw count to 0.
\* Violated: counts raised to 1 are never taken back (8190, 1, 1 -> 4095, 1, 1).
C2_NormalizedSum ==
    (nf_pc = "done" /\ SumSeq(nf_freq) # 0)
    => (/\ SumSeq(nf_out) = SCALE
        /\ \A i \in 1..Len(nf_freq) :
             /\ nf_freq[i] # 0 => nf_out[i] >= 1
             /\ nf_freq[i] = 0 => nf_out[i] = 0)

\* C3 as stated: for every base sequence over every base value, decoding the
\* bytes of put_sequence for len(s) bases gives back s.
C3_RoundTripEveryBase ==
    sq_pc = "done" => get_sequence(sq_dst, Len(sq_seq)) = sq_seq

\* C3 as amended: decoding the bytes of put_sequence for len(s) bases gives back
\* every base of the table =ACMGRSVTWYHKDBN and N in place of every other base.
C3_RoundTripTableBases ==
    sq_pc = "done"
    => get_sequence(sq_dst, Len(sq_seq))
         = [i \in 1..Len(sq_seq) |->
              IF sq_seq[i] \in Range(TableBases) THEN sq_seq[i] ELSE "N"]

C3_Witness ==
    /\ sq_pc = "done"
    /\ sq_seq = <<"T", "X", "G">>
    /\ get_sequence(sq_dst, 3) = <<"T", "N", "G">>

\* The code the table =ACMGRSVTWYHKDBN gives a base: its position, from 0.
TableCode(base) == IndexOf(TableBases, base)

\* C4: put_sequence emits ceil(len(s)/2) bytes; byte k holds the table code of
\* s[2k] in its high nibble and of s[2k+1] in its low nibble (0-based), codes
\* being positions in =ACMGRSVTWYHKDBN; the last low nibble is 0 when len(s) is
\* odd; ACGT -> 12 48 and ACG -> 12 40 (hexadecimal).
C4_ByteLayout ==
    sq_pc = "done"
    => /\ Len(sq_dst) = (Len(sq_seq) + 1) \div 2
       /\ \A k \in 1..Len(sq_dst) :
            /\ sq_seq[2 * k - 1] \in Range(TableBases)
                 => sq_dst[k] \div 16 = TableCode(sq_seq[2 * k - 1])
            /\ IF 2 * k <= Len(sq_seq)
                 THEN sq_seq[2 * k] \in Range(TableBases)
                        => sq_dst[k] % 16 = TableCode(sq_seq[2 * k])
                 ELSE sq_dst[k] % 16 = 0
       /\ sq_seq = <<"A", "C", "G", "T">> => sq_dst = <<18, 72>>
       /\ sq_seq = <<"A", "C", "G">> => sq_dst = <<18, 64>>

C4_Witness ==
    /\ sq_pc = "done"
    /\ sq_seq = <<"A", "C", "G">>
    /\ Len(sq_dst) = 2

\* C5: write_record returns an error whenever the record has quality scores
\* whose count differs from the sequence length (sequence shorter, longer or
\* absent), and succeeds (the underlying writer not failing) when a sequence is
\* present and the quality scores are absent or as many as the bases.
C5_LengthValidation ==
    \A i \in 1..Len(w_log) :
        LET e == w_log[i]
            s == Len(e.record.sequence)
            q == Len(e.record.quality_scores)
        IN /\ (q > 0 /\ q # s) => e.res = "InvalidInput"
           /\ (s > 0 /\ (q = 0 \/ q = s) /\ e.io = "ok") => e.res = "ok"

C5_Witness ==
    /\ Len(w_log) = 2
    /\ w_log[1].record.sequence = <<>>
    /\ w_log[1].record.quality_scores # <<>>
    /\ w_log[1].res = "InvalidInput"
    /\ w_log[2].record.sequence = <<"A", "C", "G", "T">>
    /\ w_log[2].record.quality_scores = <<>>
    /\ w_log[2].res = "ok"

\* C6: record framing is all-or-nothing.  The calls append to the stream one
\* after the other; a successful call appends exactly the little-endian u32 n
\* and the n bytes that encode its record alone; a call whose encoding failed
\* appends nothing.
C6_Framing ==
    \A i \in 1..Len(w_log) :
        LET e == w_log[i]
            body == codec_encode(<<>>, e.record).buf
        IN /\ e.pre = (IF i = 1 THEN 0 ELSE w_log[i - 1].post)
           /\ e.post <= Len(w_inner)
           /\ i = Len(w_log) => e.post = Len(w_inner)
           /\ e.res = "ok"
                => SubSeq(w_inner, e.pre + 1, e.post)
                     = LittleEndian(Len(body), 4) \o body
           /\ e.res = "InvalidInput" => e.post = e.pre

C6_Witness ==
    /\ Len(w_log) = 2
    /\ w_log[1].res = "InvalidInput"
    /\ w_log[1].post = 0
    /\ w_log[2].res = "ok"
    /\ Len(w_inner) = 4 + Len(w_buf)
    /\ w_log[2].record.sequence # <<>>

\* C7: add_record with a reference sequence id below the current one returns
\* InvalidInput and leaves the indexer (finished reference sequences, builder
\* in progress, unplaced counter) as it was.
C7_RejectsLowerId ==
    (/\ ix_last.op = "add_record"
     /\ ix_last.ctx.some
     /\ ix_last.ctx.id < Len(ix_last.pre.reference_sequences))
    => (ix_last.res = "InvalidInput" /\ indexer = ix_last.pre)

C7_Witness ==
    /\ ix_last.op = "add_record"
    /\ ix_last.res = "InvalidInput"
    /\ ix_last.pre.reference_sequence_builder # <<>>
    /\ ix_last.pre.unplaced_unmapped_record_count > 0

\* What the builder holds of a record added with the context ctx.
AddedRecord(ctx) ==
    [start |-> ctx.start, end |-> ctx.end, is_mapped |-> ctx.is_mapped, chunk |-> DocChunk]

\* C8: add_record with an id r above the current id c finishes the builder in
\* progress as reference sequence c, appends empty reference sequences for
\* c+1..r-1 and puts the record into a fresh builder; after every successful
\* placed add_record the current id is the id of the record just added, and no
\* add_record lowers the current id.
C8_FlushOnIncrease ==
    ix_last.op = "add_record"
    => LET pre == ix_last.pre
           c == Len(pre.reference_sequences)
           r == ix_last.ctx.id
       IN /\ Len(indexer.reference_sequences) >= c
          /\ (ix_last.ctx.some /\ ix_last.res = "ok")
               => /\ Len(indexer.reference_sequences) = r
                  /\ r > c =>
                       /\ indexer.reference_sequences
                            = pre.reference_sequences
                              \o <<builder_build(pre.reference_sequence_builder)>>
                              \o [k \in 1..(r - c - 1) |-> builder_build(builder_default)]
                       /\ indexer.reference_sequence_builder = <<AddedRecord(ix_last.ctx)>>
                  /\ r = c =>
                       /\ indexer.reference_sequences = pre.reference_sequences
                       /\ indexer.reference_sequence_builder
                            = Append(pre.reference_sequence_builder, AddedRecord(ix_last.ctx))

C8_Witness ==
    /\ ix_last.op = "add_record"
    /\ ix_last.res = "ok"
    /\ ix_last.ctx.some
    /\ ix_last.pre.reference_sequence_builder # <<>>
    /\ ix_last.ctx.id = Len(ix_last.pre.reference_sequences) + 2

\* C9: add_record without an alignment context succeeds, raises the
\* unplaced/unmapped count by one and changes nothing else; the count in the
\* built index is the number of such calls.
C9_UnplacedCount ==
    /\ (ix_last.op = "add_record" /\ ~ix_last.ctx.some)
         => /\ ix_last.res = "ok"
            /\ indexer = [ix_last.pre EXCEPT !.unplaced_unmapped_record_count = @ + 1]
    /\ indexer.unplaced_unmapped_record_count = ix_nulls
    /\ ix_pc = "built" => ix_index.unplaced_unmapped_record_count = ix_nulls

C9_Witness ==
    /\ ix_pc = "built"
    /\ ix_nulls = 2
    /\ ix_last.count > 0
    /\ ix_index.reference_sequences # <<>>
    /\ ix_index.unplaced_unmapped_record_count = 2


\* The stream ends inside its first record: after at least one byte and
\* before the last byte of the genotypes block.
EndsInsideRecord(stream) ==
    /\ stream # <<>>
    /\ \/ Len(stream) < 8
       \/ Len(stream) < 8 + from_le_bytes(SubSeq(stream, 1, 4))
                          + from_le_bytes(SubSeq(stream, 5, 8))

\* C11: read_lazy_record returns Ok(0) only when the stream is at its end
\* exactly at a record boundary (no byte of l_shared is left); when the
\* stream ends after at least one byte of a record (inside l_shared, l_indiv,
\* the shared block or the genotypes block) it returns an error.
\* Violated: a stream that ends inside l_shared (one to three bytes left)
\* gives Ok(0).
C11_CleanEofOnlyAtBoundary ==
    lz_last.op = "read_lazy_record"
    => /\ (lz_last.kind = "ok" /\ lz_last.n = 0) => lz_last.pre = <<>>
       /\ EndsInsideRecord(lz_last.pre) => lz_last.kind # "ok"



\* The typed value v conforms to the declared INFO type.
Conforms(info_ty, v) ==
    \/ v.ty = "none"
    \/ info_ty = "Integer" /\ v.ty \in {"int8", "int16", "int32"}
    \/ info_ty = "Float" /\ v.ty = "float"
    \/ info_ty = "Flag" /\ v.ty = "int8" /\ v.shape = "scalar" /\ v.vals = <<1>>
    \/ info_ty \in {"Character", "String"} /\ v.ty = "string"

\* C12: read_info_field_value returns InvalidData whenever the typed value
\* read does not conform to the declared type (Integer: int8/int16/int32;
\* Float: float; Flag: absent or int8 = 1; Character, String: string), and for
\* every input it finishes with a value or an error, vectors holding
\* end-of-vector or reserved elements included.
\* Violated: an integer or float vector with such an element reaches todo!().
C12_MismatchIsErrorAndTotal ==
    inf_pc = "done"
    => /\ inf_out.kind # "panic"
       /\ LET v == read_value(inf_in.bytes)
          IN (v.kind = "ok" /\ ~Conforms(inf_in.ty, v)) => inf_out.kind = "InvalidData"

\* C13: for an Integer INFO field an int8, int16 or int32 scalar holding n
\* gives Integer(n); the width's missing sentinel, a zero count or an absent
\* value gives no value; a vector gives an IntegerArray of the same length,
\* element by element, each missing sentinel as a missing element
\* (21 08 80 gives [8, missing]).
\* Violated: a vector holding an end-of-vector or reserved element gives no
\* array at all (todo!()).
C13_IntegerWidthIndependent ==
    (inf_pc = "done" /\ inf_in.ty = "Integer")
    => LET v == read_value(inf_in.bytes)
           w == (Len(inf_in.bytes) - 1) \div Max(1, Len(v.vals))
           class(k) == int_class(w, v.vals[k])
       IN /\ (v.kind = "ok" /\ v.ty \in {"none", "int8", "int16", "int32"})
            => /\ (v.shape = "scalar" /\ class(1) = "Value")
                    => inf_out = InfoSome("Integer", v.vals[1])
               /\ (v.shape = "empty" \/ (v.shape = "scalar" /\ class(1) = "Missing"))
                    => inf_out = InfoNone
               /\ v.shape = "array"
                    => /\ inf_out.kind = "ok" /\ inf_out.some
                       /\ inf_out.ty = "IntegerArray"
                       /\ Len(inf_out.v) = Len(v.vals)
                       /\ \A k \in 1..Len(v.vals) :
                            /\ class(k) = "Value" => inf_out.v[k] = <<v.vals[k]>>
                            /\ class(k) = "Missing" => inf_out.v[k] = <<>>
          /\ inf_in.bytes = <<33, 8, 128>> => inf_out = InfoSome("IntegerArray", <<<<8>>, <<>>>>)



\* C14: with AP_DELTA the alignment start of the k-th record of a slice is
\* the slice's initial alignment start (0 when there is none) plus the first
\* k AP values, that is, the alignment start of the record read just before
\* it plus its own AP value; without AP_DELTA it is the AP value itself.  A
\* result of 0 is no alignment start, a negative result an InvalidData error.
\* (Stated record by record, as a difference, so that no sum beyond i32 is
\* formed.)
\* Violated: the i32 sum of the previous start and the delta overflows.
C14_AlignmentStart ==
    \A k \in 1..Len(cr_out.log) :
        LET e == cr_out.log[k]
            ap == cr_in.recs[k].ap
            before == IF k = 1 THEN cr_in.initial ELSE cr_out.log[k - 1].record.alignment_start
            base == IF cr_in.ap_delta /\ before # <<>> THEN before[1] ELSE 0
        IN /\ e.prev = before
           /\ IF ap < 0 - base THEN e.kind = "InvalidData"
              ELSE /\ e.kind = "ok"
                   /\ IF ap = 0 - base THEN e.record.alignment_start = <<>>
                      ELSE /\ e.record.alignment_start # <<>>
                           /\ e.record.alignment_start[1] - base = ap

\* C15 as stated: with RN set read_record decodes exactly one read name per
\* record; with RN not set no read name is decoded from the slice for any
\* record and read_name stays unset.
C15_NoNameWithoutRN ==
    \A k \in 1..Len(cr_out.log) :
        LET e == cr_out.log[k]
        IN e.kind = "ok"
           => IF cr_in.rn THEN e.names = 1 /\ e.record.read_name # <<>>
              ELSE e.names = 0 /\ e.record.read_name = <<>>

\* C15 as amended: with RN set read_record decodes exactly one read name per
\* record; with RN not set it decodes one read name for every detached
\* record (with its mate data) and none for the others, whose read_name
\* stays unset.
C15_NameIffRNOrDetached ==
    \A k \in 1..Len(cr_out.log) :
        LET e == cr_out.log[k]
        IN e.kind = "ok"
           => IF cr_in.rn \/ cr_in.recs[k].detached
                THEN e.names = 1 /\ e.record.read_name = <<100 + k - Cardinality(
                         {j \in 1..(k - 1) : ~cr_in.rn /\ ~cr_in.recs[j].detached})>>
                ELSE e.names = 0 /\ e.record.read_name = <<>>

C15_Witness ==
    /\ ~cr_in.rn
    /\ Len(cr_out.log) = 2
    /\ cr_out.log[1].kind = "ok" /\ cr_out.log[2].kind = "ok"
    /\ ~cr_in.recs[1].detached /\ cr_out.log[1].record.read_name = <<>>
    /\ cr_in.recs[2].detached /\ cr_out.log[2].record.read_name # <<>>



\* The records of the containers before the first EOF container, in written
\* order.
RECURSIVE WrittenRecords(_)
WrittenRecords(stream) ==
    IF stream = <<>> \/ Head(stream).eof THEN <<>>
    ELSE Flatten([k \in 1..Len(Head(stream).slices) |-> Head(stream).slices[k].records])
           \o WrittenRecords(Tail(stream))

\* C16: the Records iterator yields the records of the stream in written
\* order (containers, then slices, then records), continues past data
\* containers without records, returns None when the EOF container is read,
\* and once it has returned None every later call returns None.
\* Violated: the iterator keeps no mark of the end; a call after None reads
\* the stream again.
C16_WrittenOrderThenNone ==
    (it_pc = "open" /\ \A c \in 1..Len(it_in) : \A s \in 1..Len(it_in[c].slices) : ~it_in[c].slices[s].bad)
    => LET log == it_out.log
           written == WrittenRecords(it_in)
       IN \A i \in 1..Len(log) :
            /\ (\A j \in 1..i : log[j] # <<"none">>) /\ i <= Len(written)
                 => log[i] = <<"record", written[i]>>
            /\ (i = Len(written) + 1 /\ \E c \in 1..Len(it_in) : it_in[c].eof)
                 => log[i] = <<"none">>
            /\ log[i] = <<"none">> => \A j \in i..Len(log) : log[j] = <<"none">>



\* C17: decode_byte, decode_itf8 and decode_byte_array finish with a value or
\* an error for every encoding variant and every cursor state; a variant a
\* decoder does not implement for its value kind gives an error, never an
\* abort.
\* Violated: the unimplemented variants reach todo!(), and External given
\* directly as a byte-array encoding unwraps a buffer that is None.
C17_DecodersTotal ==
    dc_pc = "done" => dc_out.kind \in {"ok", "InvalidData", "UnexpectedEof"}



\* C18: parse returns an error if a reference sequence name, read group ID or
\* program ID occurs on more than one line, the first occurrence being on
\* the first line included, and if an @HD record is on any line but the
\* first; on such an error no header is returned.
C18_DuplicatesAndLateHD ==
    (/\ hp_pc = "done"
     /\ \/ \E i, j \in 1..Len(hp_in) :
             /\ i < j /\ hp_in[i] = hp_in[j]
             /\ hp_in[i].kind \in {"SQ", "RG", "PG"}
        \/ \E j \in 2..Len(hp_in) : hp_in[j].kind = "HD")
    => (hp_out.kind = "err" /\ hp_out.header = <<>>)

C18_Witness ==
    /\ hp_pc = "done"
    /\ Len(hp_in) = 3
    /\ hp_in[1] = [kind |-> "RG", id |-> "b"]
    /\ hp_in[2] = [kind |-> "SQ", id |-> "b"]
    /\ hp_in[3] = hp_in[1]
    /\ hp_out = ParseErr("DuplicateReadGroupId")


(***************************************************************************)
(* C19: a frequency table read from the stream whose frequencies do not    *)
(* sum to 4096 is rejected with an error before any symbol is decoded.     *)
(***************************************************************************)
C19_UnnormalizedTableRejected ==
    (/\ r0_pc = "done"
     /\ r0_out.table.kind = "ok"
     /\ SumFreqs(r0_out.table.freqs) # TOTAL_FREQ)
    => (r0_out.res.kind \notin {"ok", "panic"} /\ r0_out.res.output = <<>>)


(***************************************************************************)
(* C20: encode applies PACK, then RLE, then STRIPE, then the entropy      *)
(* coder, and writes after the flag byte (and length) the PACK header      *)
(* before the RLE header before the payload; every transform whose flag is *)
(* set in the emitted flag byte has been applied to the data and has its   *)
(* header in the output.                                                   *)
(***************************************************************************)
C20_FlaggedTransformsApplied ==
    (rn_pc = "encoded" /\ rn_res.kind = "ok") =>
        LET size == IF "NO_SIZE" \notin rn_flags THEN write_uint7(Len(rn_src)) ELSE <<>>
            pack == IF "PACK" \in rn_flags THEN encode_pack(rn_src, "release")
                    ELSE [kind |-> "ok", header |-> <<>>, buf |-> rn_src]
            rle == IF "RLE" \in rn_flags THEN encode_rle(pack.buf)
                   ELSE [kind |-> "ok", header |-> <<>>, buf |-> pack.buf]
            head == <<FlagByte(rn_flags)>> \o size \o pack.header \o rle.header
            n == rn_res.body.n
        IN /\ Len(rn_res.head) >= Len(head)
           /\ SubSeq(rn_res.head, 1, Len(head)) = head
           /\ "STRIPE" \notin rn_flags => rn_res.body.data = rle.buf
           /\ "STRIPE" \in rn_flags =>
                \A j \in 1..n :
                    rn_res.body.chunks[j].body.data = stripe_chunks(rle.buf, n)[j]


(***************************************************************************)
(* C21: when read_lazy_record is cancelled at a suspension point, or stops *)
(* with an I/O error there, the caller's record is the complete new        *)
(* record, or cleared, or unchanged: never the new site fields with a      *)
(* partially filled genotypes buffer or the previous record's counts.      *)
(***************************************************************************)
C21_CancelLeavesRecordWhole ==
    (\/ lz_last.op = "cancel"
     \/ lz_last.op = "read_lazy_record" /\ lz_last.kind # "ok")
    => LET full == read_lazy_record(lz_last.pre, lz_last.before)
       IN \/ lz_last.record = lz_last.before
          \/ lz_last.record = LazyRecordDefault
          \/ full.kind = "ok" /\ full.n > 0 /\ lz_last.record = full.record


(***************************************************************************)
(* C22: for accepted add_record calls whose ids are all below n, build(n)  *)
(* returns an index with exactly n reference sequences in which reference  *)
(* sequence r holds exactly the records added with id r, those of the      *)
(* reference sequence still in progress included.  (The records added with *)
(* id r are those of the finished reference sequence r, or of the builder  *)
(* in progress when r is the current id.)                                  *)
(***************************************************************************)
C22_BuildHoldsEveryRecord ==
    LET pre == ix_last.pre
        n == ix_last.count
        c == Len(pre.reference_sequences)
        added(r) == IF r < c THEN pre.reference_sequences[r + 1]
                    ELSE IF r = c THEN builder_build(pre.reference_sequence_builder)
                    ELSE builder_build(builder_default)
    IN (/\ ix_last.op = "build"
        /\ IF pre.reference_sequence_builder = <<>> THEN c <= n ELSE c < n)
       => /\ Len(ix_index.reference_sequences) = n
          /\ \A r \in 0..(n - 1) : ix_index.reference_sequences[r + 1] = added(r)


\* The i-th value (0-based) unpacked from buf for a list of `count` symbols.
Unpacked(buf, syms, count, i) ==
    LET bits == IF count <= 1 THEN 0 ELSE IF count <= 2 THEN 1
                ELSE IF count <= 4 THEN 2 ELSE 4
        per == IF bits = 0 THEN 1 ELSE 8 \div bits
        index == IF bits = 0 THEN 0
                 ELSE (buf[(i \div per) + 1] \div Pow2((i % per) * bits)) % Pow2(bits)
    IN syms[index + 1]

(***************************************************************************)
(* C23: encode_pack succeeds exactly when the input has at most 16         *)
(* distinct byte values and returns InvalidInput otherwise; on success the *)
(* header lists the distinct symbols in ascending order and the buffer     *)
(* stores each input byte's index in that list in 0, 1, 2 or 4 bits from   *)
(* the least significant bits upward, so that unpacking len(src) values    *)
(* gives back src.  (Read off encode with PACK as the only transform.)     *)
(***************************************************************************)
C23_PackExactlyUpTo16 ==
    (rn_pc = "encoded" /\ "PACK" \in rn_flags /\ rn_flags \cap {"STRIPE", "RLE"} = {})
    => LET distinct == Range(rn_src)
           syms == SortedSeq(distinct)
           count == Cardinality(distinct)
           buf == rn_res.body.data
           head0 == <<FlagByte(rn_flags)>>
                    \o (IF "NO_SIZE" \notin rn_flags THEN write_uint7(Len(rn_src)) ELSE <<>>)
           head == head0 \o <<count>> \o syms \o write_uint7(Len(buf))
       IN /\ rn_res.kind = (IF count <= 16 THEN "ok" ELSE "InvalidInput")
          /\ rn_res.kind = "ok" =>
               /\ SubSeq(rn_res.head, 1, Len(head)) = head
               /\ \A i \in 0..(Len(rn_src) - 1) :
                    Unpacked(buf, syms, count, i) = rn_src[i + 1]


(***************************************************************************)
(* C24: decoding a value with External(id) consumes bytes only from the    *)
(* external cursor with content id `id`: the core reader and every other   *)
(* external cursor are unchanged, and the bytes taken are the next bytes   *)
(* of that block in order; when no block has that id the result is         *)
(* InvalidData and no cursor moves.                                        *)
(***************************************************************************)
C24_ExternalFrame ==
    (ex_log # <<>> /\ ex_log[Len(ex_log)].encoding.variant = "External")
    => LET e == ex_log[Len(ex_log)]
           id == e.encoding.id
           pre == e.pre
       IN /\ ex_readers.core = pre.core
          /\ DOMAIN ex_readers.blocks = DOMAIN pre.blocks
          /\ \A j \in DOMAIN pre.blocks \ {id} : ex_readers.blocks[j] = pre.blocks[j]
          /\ id \notin DOMAIN pre.blocks => (e.kind = "InvalidData" /\ ex_readers = pre)
          /\ (id \in DOMAIN pre.blocks /\ e.kind = "ok") =>
               \E k \in 1..Len(pre.blocks[id]) :
                  /\ ex_readers.blocks[id] = SubSeq(pre.blocks[id], k + 1, Len(pre.blocks[id]))
                  /\ IF e.decoder = "decode_byte"
                       THEN k = 1 /\ e.value = pre.blocks[id][1]
                       ELSE Itf8Bytes(e.value) = SubSeq(pre.blocks[id], 1, k)

\* Two successive External(1) decodes took 2 and then 7 from block 1, and a
\* decode of the absent block 3 followed, with block 2 and the core data
\* still whole.
C24_Witness ==
    /\ Len(ex_log) = 3
    /\ ex_log[1].encoding.variant = "External" /\ ex_log[1].encoding.id = 1
    /\ ex_log[2].encoding = ex_log[1].encoding
    /\ ex_log[1].kind = "ok" /\ ex_log[2].kind = "ok"
    /\ ex_log[1].value = 2 /\ ex_log[2].value = 7
    /\ ex_log[3].encoding.variant = "External" /\ ex_log[3].encoding.id = 3
    /\ ex_log[3].kind = "InvalidData"
    /\ ex_readers.blocks[1] = <<0, 9>>
    /\ ex_readers.blocks[2] = <<130, 5, 3>>
    /\ ex_readers.core = <<66, 65>>


(***************************************************************************)
(* C25: decode_byte_array with ByteArrayStop(stop, id) returns the bytes   *)
(* that precede the first stop byte in the remaining data of block id (the *)
(* result never contains stop) and advances that cursor past the stop      *)
(* byte; when no stop byte remains it returns InvalidData and leaves the   *)
(* cursor where it was.                                                    *)
(***************************************************************************)
C25_ByteArrayStop ==
    (/\ dc_pc = "done"
     /\ dc_in.decoder = "decode_byte_array"
     /\ dc_in.encoding.variant = "ByteArrayStop"
     /\ dc_in.cursor.block # <<>>)
    => LET src == dc_in.cursor.block[1]
       IN IF StopByte \in Range(src)
            THEN /\ dc_out.kind = "ok"
                 /\ StopByte \notin Range(dc_out.value)
                 /\ src = dc_out.value \o <<StopByte>> \o dc_out.cursor.block[1]
                 /\ dc_out.cursor.core = dc_in.cursor.core
            ELSE /\ dc_out.kind = "InvalidData"
                 /\ dc_out.cursor = dc_in.cursor

\* Of a block with two stop bytes the bytes before the first are returned.
C25_Witness ==
    /\ dc_pc = "done"
    /\ dc_in.decoder = "decode_byte_array"
    /\ dc_in.encoding.variant = "ByteArrayStop"
    /\ dc_in.cursor.block = <<<<5, 0, 6, 0>>>>
    /\ dc_out.kind = "ok"
    /\ dc_out.value = <<5>>
    /\ dc_out.cursor.block = <<<<6, 0>>>>


(***************************************************************************)
(* C26: the assertion 0 < n < 256 in encode_rle holds for every input, so  *)
(* encode with the RLE flag returns a result for every byte string (also   *)
(* one with no two equal adjacent bytes), and the literal buffer with the  *)
(* recorded run lengths expands back to the input.                         *)
(***************************************************************************)
C26_RleAssertionHolds ==
    (rn_pc = "encoded" /\ "RLE" \in rn_flags /\ rn_flags \cap {"STRIPE", "PACK"} = {})
    => /\ rn_res.kind = "ok"
       /\ decode_plain(rn_res, Len(rn_src)) = rn_src


(***************************************************************************)
(* C27: read_header terminates on every finite stream, also one that ends  *)
(* inside a header line with no trailing newline; it returns exactly the   *)
(* leading lines that start with '@' and consumes exactly those bytes.     *)
(***************************************************************************)
C27_ReadHeaderTerminates ==
    <>(/\ sh_pc \in {"done", "idle"}
       /\ sh_pc = "done" =>
            /\ sh_out.header_buf = LeadingHeaderLines(sh_in)
            /\ sh_in = sh_out.header_buf \o sh_out.reader)


(***************************************************************************)
(* C28: for a FileHeader block whose data is an i32 length L followed by   *)
(* at least L bytes, read_file_header_block returns exactly the L bytes    *)
(* that follow the prefix (bytes beyond L, such as padding, are not part   *)
(* of the header); a block of any other content type yields InvalidData.   *)
(***************************************************************************)
C28_HeaderDelimitedByLength ==
    fh_pc = "done" =>
        LET l == from_le_bytes(SubSeq(fh_in.data, 1, 4))
            text == SubSeq(fh_in.data, 5, 4 + l)
        IN /\ fh_in.content_type # "FileHeader" => fh_out.kind = "InvalidData"
           /\ (/\ fh_in.content_type = "FileHeader"
               /\ Len(fh_in.data) >= 4
               /\ Len(fh_in.data) >= 4 + l
               /\ from_utf8(text).kind = "ok")
              => (fh_out.kind = "ok" /\ fh_out.text = text)


(***************************************************************************)
(* C29: after any sequence of update calls the builder maps each distinct  *)
(* tuple of (tag, type) keys seen so far to a distinct index, the indices  *)
(* are exactly 0..k-1 for k tuples, an index once assigned never changes,  *)
(* records that differ only in tag values share one tuple, and build       *)
(* returns the tuples in order of first occurrence, each exactly once.     *)
(***************************************************************************)
C29_TagIdsDictionary ==
    td_pc \in {"open", "built"} =>
        LET tuples == [i \in 1..Len(td_log.records) |-> tag_keys(td_log.records[i])]
            seen == Range(tuples)
        IN /\ DOMAIN td_builder = seen
           /\ \A a, b \in seen : td_builder[a] = td_builder[b] => a = b
           /\ {td_builder[a] : a \in seen} = 0..(Cardinality(seen) - 1)
           /\ \A a \in DOMAIN td_log.prev : td_builder[a] = td_log.prev[a]
           /\ td_pc = "built" => td_log.dictionary = FirstOccurrences(tuples)

\* The records of the builder's test: NH twice with different values, then
\* NH with CO; the dictionary has the two tuples in that order.
C29_Witness ==
    /\ td_pc = "built"
    /\ td_log.records = <<<<NH("Int8", 1)>>, <<NH("Int8", 2)>>, <<NH("Int8", 1), CO>>>>
    /\ td_log.dictionary = <<tag_keys(<<NH("Int8", 1)>>), tag_keys(<<NH("Int8", 1), CO>>)>>


(***************************************************************************)
(* C30: for every 32-bit state x and every frequency f in 1..4096 with     *)
(* cumulative frequency c <= 4096 - f, normalize emits at most one 16-bit  *)
(* word and returns a state below f * 2^19, and the update                 *)
(* (x / f << 12) + c + (x mod f) that follows is below 2^32.               *)
(***************************************************************************)
C30_StateWithin32Bits ==
    ns_pc \in {"normalized", "updated"} =>
        /\ Len(ns_out.normalized.written) <= 2
        /\ ns_out.normalized.r.hi \div 8 < ns_in.f
        /\ ~ns_out.updated.overflow

\* The largest state with the largest frequency: one word is emitted, and
\* the state that was normalized is updated.
C30_Witness ==
    /\ ns_pc = "updated"
    /\ ns_in.r = [hi |-> 65535, lo |-> 65535]
    /\ ns_in.f = 4096
    /\ ns_out.normalized.written = <<255, 255>>
    /\ ns_out.normalized.r = [hi |-> 0, lo |-> 65535]
    /\ ns_out.updated.r = [hi |-> 0, lo |-> 61440 + 4095]


=============================================================================
